---- MODULE Spec2Model ----
(***************************************************************************)
(* State-machine model of dwi_ml's tracking-validation driver              *)
(* (DWIMLTrainerForTrackingOneInput), of the multi-line propagation engine *)
(* it calls, and of the direction-getter heads.                            *)
(*                                                                         *)
(* Points and directions are integer triples.  Directions returned by the  *)
(* model are axis-aligned (exactly one non-zero component), so that the    *)
(* Euclidean norm, the normalisation and the angle between two directions  *)
(* are exact in integer arithmetic.  Angles are in degrees.                *)
(***************************************************************************)
EXTENDS Integers, Sequences, FiniteSets, TLC

VARIABLES
    pc,                       \* position of generate_from_one_batch
    data,                     \* the batch: ground-truth lines (loader output)
    step_size,                \* self.model.step_size
    nb_steps_init,            \* self.tracking_phase_nb_steps_init
    tracking_mask,            \* self.tracking_mask ("None" or "box")
    theta,                    \* engine argument theta (degrees)
    append_last_point,        \* engine argument append_last_point
    normalize_directions,     \* engine argument normalize_directions
    max_nbr_pts,              \* engine argument max_nbr_pts
    last_pos,                 \* generate_from_one_batch: last_pos
    seeds,                    \* the lines handed to the engine
    lines,                    \* engine: lines still propagated (compacted)
    continuing_lines_rawidx,  \* engine: raw index of each continuing line
    final_lines,              \* engine: finished lines by raw index
    stop_reason,              \* engine: why each raw line stopped
    model_inputs,             \* streamlines given to the model at this step
    next_dirs,                \* directions the model returned at this step
    nb_steps,                 \* engine: number of steps taken
    result,                   \* what generate_from_one_batch returned
    vpc,                      \* position of validate_using_tracking
    valid_dataloader,         \* self.valid_dataloader: the batches it yields
    nb_valid_batches_per_epoch,   \* self.nb_valid_batches_per_epoch
    batch_id,                 \* validate_using_tracking: batch_id
    context,                  \* context of loader, sampler and model
    tracking_valid_loss_monitor,  \* self.tracking_valid_loss_monitor
    tracking_valid_IS_monitor,    \* self.tracking_valid_IS_monitor
    head,                     \* a direction-getter head
    call,                     \* the last call on the head and its outcome
    wpc,                      \* position of _sample_weight
    kappa,                    \* _sample_weight: kappa (a fraction)
    bxc,                      \* _sample_weight: b, x and c
    z,                        \* _sample_weight: z of this iteration
    u,                        \* _sample_weight: u of this iteration
    w,                        \* _sample_weight: w of this iteration
    sampled_w,                \* what _sample_weight returned
    nb_draws,                 \* iterations of the loop, counted to MaxDraws
    spc,                      \* position of MainModelAbstract.save
    disk,                     \* the directories under saving_dir
    to_remove,                \* save: to_remove
    version,                  \* the state of the model that is being saved
    saved,                    \* the last version completely written
    tmodel,                   \* a transformer model (AbstractTransformerModel)
    tcall,                    \* the last call on the transformer, its outcome
    trainer,                  \* the trainer: its monitors, over the epochs
    checkpoint,               \* the states written by the last checkpoint
    ae,                       \* a ModelConvNextAE instance
    ae_call,                  \* the last call on the autoencoder, its outcome
    ls_viz,                   \* the latent-space hook and its visualizer
    run                       \* the training run that calls the hook

trackVars == <<pc, data, step_size, nb_steps_init, tracking_mask, theta,
               append_last_point, normalize_directions, max_nbr_pts,
               last_pos, seeds, lines, continuing_lines_rawidx, final_lines,
               stop_reason, model_inputs, next_dirs, nb_steps, result>>

validVars == <<vpc, valid_dataloader, nb_valid_batches_per_epoch, batch_id,
               context, tracking_valid_loss_monitor,
               tracking_valid_IS_monitor>>

headVars == <<head, call>>

weightVars == <<wpc, kappa, bxc, z, u, w, sampled_w, nb_draws>>

saveVars == <<spc, disk, to_remove, version, saved>>

transVars == <<tmodel, tcall>>

epochVars == <<trainer, checkpoint>>

aeVars == <<ae, ae_call>>

hookVars == <<ls_viz, run>>

moreVars == <<transVars, epochVars, aeVars, hookVars>>

baseVars == <<trackVars, validVars, headVars, weightVars, saveVars>>

vars == <<baseVars, moreVars>>

----------------------------------------------------------------------------
(* Bounds of the model. *)

MaxLines == 2
MaxBatches == 2
MaxRows == 2

----------------------------------------------------------------------------
(* Constants of the program. *)

\* theta = 2 * np.pi, in degrees
ThetaDriver == 360

\* max_nbr_pts = int(200 / self.model.step_size)
MaxLengthMm == 200

\* IS_THRESHOLD = 25.98, times 100
IS_THRESHOLD_X100 == 2598

\* Variant: the point that stepped out is kept
AppendLastPointKept == TRUE

\* the driver's call: append_last_point=False, normalize_directions=True
AppendLastPointDriver == FALSE
NormalizeDirectionsDriver == TRUE

----------------------------------------------------------------------------
(* Vectors. *)

NoLine == <<>>
None == "None"

Add(p, q) == <<p[1] + q[1], p[2] + q[2], p[3] + q[3]>>
Sub(p, q) == <<p[1] - q[1], p[2] - q[2], p[3] - q[3]>>
Scale(k, d) == <<k * d[1], k * d[2], k * d[3]>>
Dot(p, q) == p[1] * q[1] + p[2] * q[2] + p[3] * q[3]
Abs(x) == IF x < 0 THEN -x ELSE x

\* Euclidean norm of an axis-aligned vector
NormAxis(d) == Abs(d[1]) + Abs(d[2]) + Abs(d[3])

\* next_dirs / norm(next_dirs), for an axis-aligned direction
Normalize(d) == <<d[1] \div NormAxis(d), d[2] \div NormAxis(d),
                  d[3] \div NormAxis(d)>>

\* Angle (degrees) between two axis-aligned directions
Angle(a, b) ==
    LET c == Dot(Normalize(a), Normalize(b))
    IN  IF c > 0 THEN 0 ELSE IF c = 0 THEN 90 ELSE 180

DistSq(p, q) == Dot(Sub(p, q), Sub(p, q))

Last(s) == s[Len(s)]

\* s[0:k]
Prefix(s, k) == SubSeq(s, 1, k)

Min(a, b) == IF a < b THEN a ELSE b

RECURSIVE SelectIdx(_, _, _)
\* [s[i] for i in 1..Len(s) if keep[i]], from index i on
SelectIdx(s, keep, i) ==
    IF i > Len(s) THEN <<>>
    ELSE IF keep[i] THEN <<s[i]>> \o SelectIdx(s, keep, i + 1)
    ELSE SelectIdx(s, keep, i + 1)

----------------------------------------------------------------------------
(* Inputs. *)

\* Directions a model may output (non-zero, axis-aligned, not all unit)
RawDirs == { <<2, 0, 0>>, <<0, 1, 0>>, <<-1, 0, 0>> }

\* Ground-truth streamlines of the validation set
GTLines == { << <<60, 0, 0>>, <<60, 26, 0>> >>,
             << <<0, 0, 0>>, <<100, 0, 0>>, <<100, 100, 0>>, <<100, 125, 0>> >> }

StepSizes == {60, 100}
NbStepsInit == {1, 2, 3}
Masks == {None, "box"}
Thetas == {90, ThetaDriver}

\* The tracking mask: is the point inside?
InMask(mask, p) ==
    \/ mask = None
    \/ /\ p[1] \in 0..130
       /\ p[2] \in 0..130
       /\ p[3] = 0

Batches == UNION { [1..n -> GTLines] : n \in 1..MaxLines }

----------------------------------------------------------------------------
(* generate_from_one_batch and the driver's propagate_multiple_lines. *)

\* Variant: the end points are read after the truncation to the seeds
LastPosAfterTruncation(ls) ==
    [i \in 1..Len(ls) |-> ls[i][Min(Len(ls[i]), nb_steps_init)]]

\* last_pos = torch.vstack([line[-1, :] for line in lines])
LastPositions(ls) == [i \in 1..Len(ls) |-> Last(ls[i])]

\* lines = [s[0:min(len(s), self.tracking_phase_nb_steps_init), :] ...]
TruncateToInit(ls, k) ==
    [i \in 1..Len(ls) |-> Prefix(ls[i], Min(Len(ls[i]), k))]

\* max_nbr_pts = int(200 / self.model.step_size)
MaxNbrPts(step) == MaxLengthMm \div step

\* Variant: the model is given the lines themselves
FullHistoryInputs(active, n_last_pos) == active

\* get_dirs_at_last_pos: n_last_pos = [pos[None, :] for pos in n_last_pos];
\* the model is called on these one-point lines, _lines is not used
GetDirsInputs(active, n_last_pos) ==
    [i \in 1..Len(n_last_pos) |-> <<n_last_pos[i]>>]

----------------------------------------------------------------------------
(* The propagation engine (dwi_ml.tracking.propagation), one step. *)

\* n_last_pos: the last point of each continuing line
NLastPos(active) == [i \in 1..Len(active) |-> Last(active[i])]

\* Direction normalisation, when configured
StepDir(d) == IF normalize_directions THEN Normalize(d) ELSE d

\* Previous direction: finite difference of the line's last two points
HasPrevDir(line) == Len(line) >= 2
PrevDir(line) == Sub(line[Len(line)], line[Len(line) - 1])

\* Variant: no angle criterion
AngleStopNever(line, d) == FALSE

\* (a) the new direction exceeds the maximum angle with the previous one
AngleStop(line, d) ==
    HasPrevDir(line) /\ Angle(StepDir(d), PrevDir(line)) > theta

NewPos(line, d) == Add(Last(line), Scale(step_size, StepDir(d)))

\* (b) the new point falls outside the tracking mask
MaskStop(line, d) ==
    ~AngleStop(line, d) /\ ~InMask(tracking_mask, NewPos(line, d))

\* The line after the step: no point on an angle stop; the point that
\* stepped out of the mask only with append_last_point
Advanced(line, d) ==
    IF AngleStop(line, d) THEN line
    ELSE IF MaskStop(line, d) /\ ~append_last_point THEN line
    ELSE Append(line, NewPos(line, d))

\* (c) the line reached the maximum point count
LenStop(line, d) ==
    /\ ~AngleStop(line, d)
    /\ ~MaskStop(line, d)
    /\ Len(Advanced(line, d)) >= max_nbr_pts

Reason(line, d) ==
    IF AngleStop(line, d) THEN "angle"
    ELSE IF MaskStop(line, d) THEN "mask"
    ELSE IF LenStop(line, d) THEN "max_nbr_pts"
    ELSE "none"

CanContinue(line, d) == Reason(line, d) = "none"

\* Variant: the compaction keeps every line
CompactKeepAll(s, keep) == s

\* Variant: the compaction ignores the last line
CompactDropLast(s, keep) ==
    IF Len(s) = 0 THEN s ELSE SelectIdx(Prefix(s, Len(s) - 1), keep, 1)

\* Compaction of the active set
Compact(s, keep) == SelectIdx(s, keep, 1)

\* Variant: finished lines are stored at their index among the continuing
\* lines
FinalAfterByPosition(final, rawidx, newlines, keep) ==
    [r \in 1..Len(final) |->
        IF r <= Len(newlines) /\ ~keep[r] /\ final[r] = NoLine
        THEN newlines[r] ELSE final[r]]

\* Finished lines are stored at their raw (input) index
FinalAfter(final, rawidx, newlines, keep) ==
    [r \in 1..Len(final) |->
        IF \E i \in 1..Len(rawidx) : rawidx[i] = r /\ ~keep[i]
        THEN newlines[CHOOSE i \in 1..Len(rawidx) : rawidx[i] = r]
        ELSE final[r]]

ReasonAfter(reasons, rawidx, why) ==
    [r \in 1..Len(reasons) |->
        IF \E i \in 1..Len(rawidx) : rawidx[i] = r
        THEN why[CHOOSE i \in 1..Len(rawidx) : rawidx[i] = r]
        ELSE reasons[r]]

\* Start of the engine: nothing is finished but the seeds that already hold
\* the maximum point count
EngineStart(sds, maxpts) ==
    LET n    == Len(sds)
        keep == [i \in 1..n |-> Len(sds[i]) < maxpts]
        idx  == [i \in 1..n |-> i]
    IN  /\ seeds' = sds
        /\ lines' = Compact(sds, keep)
        /\ continuing_lines_rawidx' = Compact(idx, keep)
        /\ final_lines' = [i \in 1..n |-> IF keep[i] THEN NoLine ELSE sds[i]]
        /\ stop_reason' = [i \in 1..n |->
                              IF keep[i] THEN "none" ELSE "max_nbr_pts"]
        /\ model_inputs' = <<>>
        /\ next_dirs' = <<>>
        /\ nb_steps' = 0

----------------------------------------------------------------------------
(* Scoring, generate_from_one_batch lines 216-235. *)

\* loss > IS_THRESHOLD, on the squared distance: d > 25.98 iff
\* 10000 * d^2 > 2598^2
IsInvalid(dsq) == 10000 * dsq > IS_THRESHOLD_X100 * IS_THRESHOLD_X100

\* loss = l2_loss(computed_last_pos, last_pos), kept as squared distances
Losses(generated, lastpos) ==
    [i \in 1..Len(generated) |-> DistSq(Last(generated[i]), lastpos[i])]

NbInvalid(loss) == Cardinality({i \in 1..Len(loss) : IsInvalid(loss[i])})

\* IS_ratio = torch.sum(loss > IS_THRESHOLD) / len(lines) * 100, as the
\* fraction num / den
ISRatio(loss, n) == [num |-> 100 * NbInvalid(loss), den |-> n]

\* return torch.mean(loss), len(lines), IS_ratio
GenerateResult(generated, lastpos) ==
    LET loss == Losses(generated, lastpos)
    IN  [loss |-> loss, n |-> Len(generated),
         IS_ratio |-> ISRatio(loss, Len(generated))]

----------------------------------------------------------------------------
(* Actions. *)

NoResult == [loss |-> <<>>, n |-> 0, IS_ratio |-> [num |-> 0, den |-> 0]]

InitTrack ==
    /\ pc = "idle"
    /\ data \in Batches
    /\ step_size \in StepSizes
    /\ nb_steps_init \in NbStepsInit
    /\ tracking_mask \in Masks
    /\ theta = None
    /\ append_last_point = None
    /\ normalize_directions = None
    /\ max_nbr_pts = None
    /\ last_pos = <<>>
    /\ seeds = <<>>
    /\ lines = <<>>
    /\ continuing_lines_rawidx = <<>>
    /\ final_lines = <<>>
    /\ stop_reason = <<>>
    /\ model_inputs = <<>>
    /\ next_dirs = <<>>
    /\ nb_steps = 0
    /\ result = NoResult

\* The state of a part of the program that a specification does not run
TrackOff ==
    /\ pc = "off"
    /\ data = <<>>
    /\ step_size = None
    /\ nb_steps_init = None
    /\ tracking_mask = None
    /\ theta = None
    /\ append_last_point = None
    /\ normalize_directions = None
    /\ max_nbr_pts = None
    /\ last_pos = <<>>
    /\ seeds = <<>>
    /\ lines = <<>>
    /\ continuing_lines_rawidx = <<>>
    /\ final_lines = <<>>
    /\ stop_reason = <<>>
    /\ model_inputs = <<>>
    /\ next_dirs = <<>>
    /\ nb_steps = 0
    /\ result = NoResult

ValidOff ==
    /\ vpc = "off"
    /\ valid_dataloader = <<>>
    /\ nb_valid_batches_per_epoch = None
    /\ batch_id = None
    /\ context = None
    /\ tracking_valid_loss_monitor = None
    /\ tracking_valid_IS_monitor = None

HeadsOff ==
    /\ head = [key |-> None]
    /\ call = [method |-> None, tick |-> 0]

WeightOff ==
    /\ wpc = "off"
    /\ kappa = None
    /\ bxc = None
    /\ z = None
    /\ u = None
    /\ w = None
    /\ sampled_w = None
    /\ nb_draws = 0

SaveOff ==
    /\ spc = "off"
    /\ disk = None
    /\ to_remove = None
    /\ version = None
    /\ saved = None

TransOff ==
    /\ tmodel = [max_len |-> 0]
    /\ tcall = [method |-> None, tick |-> 0]

EpochOff ==
    /\ trainer = None
    /\ checkpoint = None

AEOff ==
    /\ ae = None
    /\ ae_call = None

HookOff ==
    /\ ls_viz = None
    /\ run = None

BaseOff == TrackOff /\ ValidOff /\ HeadsOff /\ WeightOff /\ SaveOff

MoreOff == TransOff /\ EpochOff /\ AEOff /\ HookOff

Init == InitTrack /\ ValidOff /\ HeadsOff /\ WeightOff /\ SaveOff /\ MoreOff

\* generate_from_one_batch up to the call of the engine (lines 203-213 and
\* 237-265)
StartBatch ==
    /\ pc = "idle"
    /\ pc' = "propagating"
    /\ last_pos' = LastPositions(data)
    /\ theta' = ThetaDriver
    /\ append_last_point' = AppendLastPointDriver
    /\ normalize_directions' = NormalizeDirectionsDriver
    /\ max_nbr_pts' = MaxNbrPts(step_size)
    /\ EngineStart(TruncateToInit(data, nb_steps_init), MaxNbrPts(step_size))
    /\ UNCHANGED <<data, step_size, nb_steps_init, tracking_mask, result,
                   validVars, headVars,
                   weightVars, saveVars,
                   moreVars>>

\* Any other caller of the engine, with the same callbacks
CallEngine ==
    /\ pc = "idle"
    /\ pc' = "propagating"
    /\ last_pos' = LastPositions(data)
    /\ theta' \in Thetas
    /\ append_last_point' \in BOOLEAN
    /\ normalize_directions' \in BOOLEAN
    /\ max_nbr_pts' = MaxNbrPts(step_size)
    /\ EngineStart(TruncateToInit(data, nb_steps_init), MaxNbrPts(step_size))
    /\ UNCHANGED <<data, step_size, nb_steps_init, tracking_mask, result,
                   validVars, headVars,
                   weightVars, saveVars,
                   moreVars>>

\* One step of the engine on all the continuing lines
EngineStep ==
    /\ pc = "propagating"
    /\ lines # <<>>
    /\ \E dirs \in [1..Len(lines) -> RawDirs] :
        LET n    == Len(lines)
            new  == [i \in 1..n |-> Advanced(lines[i], dirs[i])]
            keep == [i \in 1..n |-> CanContinue(lines[i], dirs[i])]
            why  == [i \in 1..n |-> Reason(lines[i], dirs[i])]
        IN  /\ model_inputs' = GetDirsInputs(lines, NLastPos(lines))
            /\ next_dirs' = dirs
            /\ lines' = Compact(new, keep)
            /\ continuing_lines_rawidx' =
                   Compact(continuing_lines_rawidx, keep)
            /\ final_lines' =
                   FinalAfter(final_lines, continuing_lines_rawidx, new, keep)
            /\ stop_reason' =
                   ReasonAfter(stop_reason, continuing_lines_rawidx, why)
    /\ nb_steps' = nb_steps + 1
    /\ UNCHANGED <<pc, data, step_size, nb_steps_init, tracking_mask, theta,
                   append_last_point, normalize_directions, max_nbr_pts,
                   last_pos, seeds, result, validVars, headVars,
                   weightVars, saveVars,
                   moreVars>>

\* The engine returns when no line continues
EngineReturn ==
    /\ pc = "propagating"
    /\ lines = <<>>
    /\ pc' = "returned"
    /\ UNCHANGED <<data, step_size, nb_steps_init, tracking_mask, theta,
                   append_last_point, normalize_directions, max_nbr_pts,
                   last_pos, seeds, lines, continuing_lines_rawidx,
                   final_lines, stop_reason, model_inputs, next_dirs, nb_steps,
                   result, validVars, headVars,
                   weightVars, saveVars,
                   moreVars>>

\* generate_from_one_batch after the engine returned
Score ==
    /\ pc = "returned"
    /\ pc' = "scored"
    /\ result' = GenerateResult(final_lines, last_pos)
    /\ UNCHANGED <<data, step_size, nb_steps_init, tracking_mask, theta,
                   append_last_point, normalize_directions, max_nbr_pts,
                   last_pos, seeds, lines, continuing_lines_rawidx,
                   final_lines, stop_reason, model_inputs, next_dirs, nb_steps,
                   validVars, headVars,
                   weightVars, saveVars,
                   moreVars>>

Next == StartBatch \/ EngineStep \/ EngineReturn \/ Score

Spec == Init /\ [][Next]_vars

----------------------------------------------------------------------------
(* validate_using_tracking: the loop on the validation batches. *)

\* A batch the validation loader yields, with what the propagation makes of
\* it: n lines, far of them ending beyond the threshold, and the mean loss
ValidBatches ==
    [n : 1..MaxLines, far : 0..MaxLines, mean_loss : {0, 30}]

LoaderContents ==
    UNION { [1..k -> {b \in ValidBatches : b.far <= b.n}] : k \in 0..MaxBatches }

NbValidBatches == {1, 2}

\* mean_loss, n, percent_inv = self.generate_from_one_batch(data)
BatchResult(b) ==
    [mean_loss |-> b.mean_loss, n |-> b.n,
     percent_inv |-> [num |-> 100 * b.far, den |-> b.n]]

\* BatchHistoryMonitor(weighted=True)
NewMonitor ==
    [current_batch_values |-> <<>>, current_batch_weights |-> <<>>,
     average_per_epoch |-> <<>>, current_epoch |-> -1]

\* BatchHistoryMonitor.update(value, weight)
MonitorUpdate(m, value, weight) ==
    [m EXCEPT !.current_batch_values = Append(@, value),
              !.current_batch_weights = Append(@, weight)]

\* Variant: the loop stops one batch later
BreakAfterMax(id) == id = nb_valid_batches_per_epoch + 1

\* if batch_id == self.nb_valid_batches_per_epoch: break
BreakAtMax(id) == id = nb_valid_batches_per_epoch

ValidIdle ==
    /\ vpc = "idle"
    /\ valid_dataloader \in LoaderContents
    /\ nb_valid_batches_per_epoch \in NbValidBatches
    /\ batch_id = None
    /\ context = "training"
    /\ tracking_valid_loss_monitor = NewMonitor
    /\ tracking_valid_IS_monitor = NewMonitor

\* validate_using_tracking, up to the loop (lines 140-156)
StartValidation ==
    /\ vpc = "idle"
    /\ vpc' = "loop"
    /\ context' = "validation"
    /\ batch_id' = 0
    /\ UNCHANGED <<valid_dataloader, nb_valid_batches_per_epoch,
                   tracking_valid_loss_monitor, tracking_valid_IS_monitor,
                   trackVars, headVars,
                   weightVars, saveVars,
                   moreVars>>

\* One iteration of the loop on a batch that is validated (lines 157-171)
ValidateBatch ==
    /\ vpc = "loop"
    /\ batch_id < Len(valid_dataloader)
    /\ ~BreakAtMax(batch_id)
    /\ LET r == BatchResult(valid_dataloader[batch_id + 1])
       IN  /\ tracking_valid_loss_monitor' =
                  MonitorUpdate(tracking_valid_loss_monitor, r.mean_loss, r.n)
           /\ tracking_valid_IS_monitor' =
                  MonitorUpdate(tracking_valid_IS_monitor, r.percent_inv, r.n)
    /\ batch_id' = batch_id + 1
    /\ UNCHANGED <<vpc, valid_dataloader, nb_valid_batches_per_epoch, context,
                   trackVars, headVars,
                   weightVars, saveVars,
                   moreVars>>

\* The iteration that breaks the loop (lines 159-163)
BreakLoop ==
    /\ vpc = "loop"
    /\ batch_id < Len(valid_dataloader)
    /\ BreakAtMax(batch_id)
    /\ vpc' = "done"
    /\ UNCHANGED <<valid_dataloader, nb_valid_batches_per_epoch, batch_id,
                   context, tracking_valid_loss_monitor,
                   tracking_valid_IS_monitor, trackVars, headVars,
                   weightVars, saveVars,
                   moreVars>>

\* The loader is exhausted
EndOfLoader ==
    /\ vpc = "loop"
    /\ batch_id = Len(valid_dataloader)
    /\ vpc' = "done"
    /\ UNCHANGED <<valid_dataloader, nb_valid_batches_per_epoch, batch_id,
                   context, tracking_valid_loss_monitor,
                   tracking_valid_IS_monitor, trackVars, headVars,
                   weightVars, saveVars,
                   moreVars>>

NextValid == StartValidation \/ ValidateBatch \/ BreakLoop \/ EndOfLoader

InitValid ==
    ValidIdle /\ TrackOff /\ HeadsOff /\ WeightOff /\ SaveOff /\ MoreOff

SpecValid == InitValid /\ [][NextValid]_vars

----------------------------------------------------------------------------
(* The direction-getter heads (direction_getter_models.py). *)

RegressionKeys == {"cosine-regression", "l2-regression"}
NoDetKeys == {"gaussian", "gaussian-mixture", "fisher-von-mises"}
HeadKeys == RegressionKeys \cup {"sphere-classification"} \cup NoDetKeys
               \cup {"fisher-von-mises-mixture"}

\* The registry of the module: key -> head class
keys_to_direction_getters ==
    [key \in HeadKeys |->
        CASE key = "cosine-regression" -> "CosineRegressionDirectionGetter"
          [] key = "l2-regression" -> "L2RegressionDirectionGetter"
          [] key = "sphere-classification" ->
                 "SphereClassificationDirectionGetter"
          [] key = "gaussian" -> "SingleGaussianDirectionGetter"
          [] key = "gaussian-mixture" -> "GaussianMixtureDirectionGetter"
          [] key = "fisher-von-mises" -> "FisherVonMisesDirectionGetter"
          [] key = "fisher-von-mises-mixture" ->
                 "FisherVonMisesMixtureDirectionGetter"]

HeadClasses == { keys_to_direction_getters[key] : key \in HeadKeys }

\* Variant: the two gaussian classes pass the same key
KeyPassedShared(cls) ==
    CASE cls = "CosineRegressionDirectionGetter" -> "cosine-regression"
      [] cls = "L2RegressionDirectionGetter" -> "l2-regression"
      [] cls = "SphereClassificationDirectionGetter" -> "sphere-classification"
      [] cls = "SingleGaussianDirectionGetter" -> "gaussian"
      [] cls = "GaussianMixtureDirectionGetter" -> "gaussian"
      [] cls = "FisherVonMisesDirectionGetter" -> "fisher-von-mises"
      [] cls = "FisherVonMisesMixtureDirectionGetter" ->
             "fisher-von-mises-mixture"

\* The key each class passes to super().__init__
KeyPassedBy(cls) ==
    CASE cls = "CosineRegressionDirectionGetter" -> "cosine-regression"
      [] cls = "L2RegressionDirectionGetter" -> "l2-regression"
      [] cls = "SphereClassificationDirectionGetter" -> "sphere-classification"
      [] cls = "SingleGaussianDirectionGetter" -> "gaussian"
      [] cls = "GaussianMixtureDirectionGetter" -> "gaussian-mixture"
      [] cls = "FisherVonMisesDirectionGetter" -> "fisher-von-mises"
      [] cls = "FisherVonMisesMixtureDirectionGetter" ->
             "fisher-von-mises-mixture"

\* Dropout rates in tenths, <<r>>; <<>> is None
NoDropout == <<>>
Dropouts == {NoDropout, <<0>>, <<5>>, <<10>>, <<-5>>, <<15>>}
InputSizes == {3, 4}
Devices == {"cpu", "cuda"}

\* The vertices of the sphere, by 0-based class index
SphereVertices == << <<1, 0, 0>>, <<0, 1, 0>>, <<0, 0, 1>>, <<-1, 0, 0>> >>

\* Batches of directions, of 1 to MaxRows rows
DirBatches == UNION { [1..b -> RawDirs] : b \in 1..MaxRows }

\* Target directions given to _find_closest_vertex: the directions above,
\* directions at equal distance of two vertices and the null direction
TargetDirs == RawDirs \cup { <<1, 1, 0>>, <<0, 2, 2>>, <<0, 0, 0>> }

\* Batches of target directions, of 1 to MaxRows rows
TargetBatches == UNION { [1..b -> TargetDirs] : b \in 1..MaxRows }

\* Rows of logits over the vertices of the sphere
LogitRows == { <<0, 1, 0, 0>>, <<0, 0, 5, 0>>, <<3, 0, 0, 3>> }

\* Batches of logits [B, C], of 1 to MaxRows rows
LogitBatches == UNION { [1..b -> LogitRows] : b \in 1..MaxRows }

\* nb_gaussians of the gaussian-mixture heads that are built
NbGaussians == 2

RECURSIVE ConcatAll(_)
\* The concatenation of a sequence of sequences
ConcatAll(seqs) ==
    IF seqs = <<>> THEN <<>> ELSE Head(seqs) \o ConcatAll(Tail(seqs))

\* Raw outputs of forward, by family
OutputsOf(key) ==
    IF key \in RegressionKeys THEN DirBatches
    ELSE IF key = "sphere-classification" THEN LogitBatches
    ELSE IF key = "gaussian"
    THEN { [means |-> m, sigmas |-> [i \in 1..Len(m) |-> <<1, 2, 1>>]] :
              m \in DirBatches }
    ELSE IF key = "gaussian-mixture"
    THEN { [mixture_logits |-> [i \in 1..Len(m) |->
                                   [g \in 1..NbGaussians |-> g - 1]],
            means |-> [i \in 1..Len(m) |->
                          ConcatAll([g \in 1..NbGaussians |->
                                        Scale(g, m[i])])],
            sigmas |-> [i \in 1..Len(m) |->
                           ConcatAll([g \in 1..NbGaussians |->
                                         <<1, g, 1>>])]] :
              m \in DirBatches }
    ELSE IF key = "fisher-von-mises"
    THEN { [means |-> [i \in 1..Len(m) |-> Normalize(m[i])],
            kappas |-> [i \in 1..Len(m) |-> 10 * i],
            kappas_dim |-> 1] : m \in DirBatches }
    ELSE {}

Returned(v) == [kind |-> "returned", value |-> v]
Raised(e) == [kind |-> e, value |-> None]

\* AbstractDirectionGetterModel.__init__: the dropout check
DropoutInvalid(dropout) ==
    /\ dropout # NoDropout
    /\ dropout[1] # 0
    /\ (dropout[1] < 0 \/ dropout[1] > 10)

\* supports_compressed_streamlines, as each class passes it to super()
SupportsCompressed(key) == key \in {"l2-regression", "gaussian", "gaussian-mixture"}

\* The layer attributes each constructor sets
LayerAttributes(key) ==
    IF key \in RegressionKeys \cup {"sphere-classification"} THEN {"layers"}
    ELSE IF key = "gaussian" THEN {"layers_mean", "layers_sigmas"}
    ELSE IF key = "gaussian-mixture"
    THEN {"layers_mixture", "layers_mean", "layers_sigmas"}
    ELSE IF key = "fisher-von-mises" THEN {"layers_mean", "layers_kappa"}
    ELSE {}

\* loss_description, as each class passes it to super()
LossDescription(key) ==
    IF key = "cosine-regression" THEN "negative cosine similarity"
    ELSE IF key = "l2-regression" THEN "torch's pairwise distance"
    ELSE "negative log-likelihood"

\* Default values of the keywords of the constructors
DefaultSphere == "symmetric724"
DefaultNbGaussians == 3

\* The instance a constructor builds; sphere is None and nb_gaussians is 0
\* on the classes that have no such attribute
NewHead(cls, input_size, dropout, sphere, nb_gaussians) ==
    [cls |-> cls,
     key |-> KeyPassedBy(cls),
     loss_description |-> LossDescription(KeyPassedBy(cls)),
     sphere |-> IF cls = "SphereClassificationDirectionGetter"
                THEN sphere ELSE None,
     nb_gaussians |-> IF cls = "GaussianMixtureDirectionGetter"
                      THEN nb_gaussians ELSE 0,
     attributes |-> LayerAttributes(KeyPassedBy(cls)),
     supports_compressed_streamlines |-> SupportsCompressed(KeyPassedBy(cls)),
     input_size |-> input_size,
     dropout |-> dropout,
     applies_dropout |-> (dropout # NoDropout /\ dropout[1] # 0),
     vertices_device |-> IF KeyPassedBy(cls) = "sphere-classification"
                         THEN "cpu" ELSE None]

\* params of a head: the base entries, and the entry its class adds
Params(h) ==
    LET p == [input_size |-> h.input_size, dropout |-> h.dropout,
              key |-> h.key, loss |-> h.loss_description]
    IN  IF h.key = "sphere-classification"
        THEN ("sphere" :> h.sphere) @@ p
        ELSE IF h.key = "gaussian-mixture"
        THEN ("nb_gaussians" :> h.nb_gaussians) @@ p
        ELSE p

\* Variant: every constructor also takes the key and the loss description
ConstructorKeywordsWithKey(cls) ==
    {"input_size", "dropout", "key", "loss", "sphere", "nb_gaussians"}

\* The keywords the constructor of each class takes
ConstructorKeywords(cls) ==
    {"input_size", "dropout"} \cup
    (IF cls = "SphereClassificationDirectionGetter" THEN {"sphere"}
     ELSE IF cls = "GaussianMixtureDirectionGetter" THEN {"nb_gaussians"}
     ELSE IF cls = "FisherVonMisesMixtureDirectionGetter" THEN {"n_cluster"}
     ELSE {})

\* The entries of kwargs under the given keywords
Restrict(kwargs, keywords) ==
    [k \in (DOMAIN kwargs) \cap keywords |-> kwargs[k]]

\* cls(**kwargs): an unexpected keyword or no input_size is a TypeError of
\* the call; then the constructor runs
ConstructFrom(cls, kwargs) ==
    IF ~((DOMAIN kwargs) \subseteq ConstructorKeywords(cls))
       \/ "input_size" \notin DOMAIN kwargs
    THEN Raised("TypeError")
    ELSE LET dropout == IF "dropout" \in DOMAIN kwargs
                        THEN kwargs["dropout"] ELSE NoDropout
             sphere == IF "sphere" \in DOMAIN kwargs
                       THEN kwargs["sphere"] ELSE DefaultSphere
             nb_gaussians == IF "nb_gaussians" \in DOMAIN kwargs
                             THEN kwargs["nb_gaussians"]
                             ELSE DefaultNbGaussians
         IN  IF DropoutInvalid(dropout) THEN Raised("ValueError")
             ELSE IF cls = "FisherVonMisesMixtureDirectionGetter"
             THEN Raised("NotImplementedError")
             ELSE Returned(NewHead(cls, kwargs["input_size"], dropout,
                                   sphere, nb_gaussians))

\* sample_tracking_direction_prob of the two regression classes
RegressionSampleOutcome(learned_directions) == Raised("NotImplementedError")

\* Variant: the direction is normalised before it is returned
RegressionDetNormalized(learned_directions) ==
    Returned([i \in 1..Len(learned_directions) |->
                 Normalize(learned_directions[i])])

\* get_tracking_direction_det of the two regression classes
RegressionDetOutcome(learned_directions) == Returned(learned_directions)

\* Variant: the mean of the gaussian is returned
SingleGaussianDetMean(params) == Returned(params.means)

\* SingleGaussianDirectionGetter.get_tracking_direction_det
SingleGaussianDetOutcome(params) == Raised("NotImplementedError")

\* GaussianMixtureDirectionGetter.get_tracking_direction_det
GaussianMixtureDetOutcome(params) == Raised("NotImplementedError")

\* FisherVonMisesDirectionGetter.get_tracking_direction_det
FisherVonMisesDetOutcome(params) == Raised("NotImplementedError")

RECURSIVE LastArgMax(_, _)
\* Variant: the 0-based index of the last maximum of a row
LastArgMax(row, i) ==
    IF /\ \A j \in 1..Len(row) : row[j] <= row[i]
       /\ \A h \in (i + 1)..Len(row) : row[h] < row[i]
    THEN i - 1
    ELSE LastArgMax(row, i + 1)

RECURSIVE FirstArgMax(_, _)
\* torch.argmax on a row: the 0-based index of the first maximum
FirstArgMax(row, i) ==
    IF \A j \in 1..Len(row) : row[j] <= row[i] THEN i - 1
    ELSE FirstArgMax(row, i + 1)

\* Tensor.type(torch.int16): the value kept on 16 bits, two's complement
Int16(x) == ((x + 32768) % 65536) - 32768

\* _find_closest_vertex: the index of the vertex of highest dot product
ClosestVertex(directions) ==
    [i \in 1..Len(directions) |->
        Int16(FirstArgMax([j \in 1..Len(SphereVertices) |->
                              Dot(directions[i], SphereVertices[j])], 1))]

\* The elements of a [B, C] tensor in row-major order
Flatten(rows) == ConcatAll(rows)

\* Tensor.argmax() without dim: the index of the maximum of the flattened
\* tensor
FlatArgMax(logits_per_class) == FirstArgMax(Flatten(logits_per_class), 1)

\* Variant: the argmax is taken on the last dimension, one index per row
SphereDetPerRow(logits_per_class) ==
    Returned([shape |-> <<Len(logits_per_class), 3>>,
              data |-> [i \in 1..Len(logits_per_class) |->
                 SphereVertices[FirstArgMax(logits_per_class[i], 1) + 1]]])

\* SphereClassificationDirectionGetter.get_tracking_direction_det:
\* self.vertices[logits_per_class.argmax()], one vertex (shape [3]) or an
\* index out of the C vertices
SphereDetOutcome(logits_per_class) ==
    LET idx == FlatArgMax(logits_per_class)
    IN  IF idx < Len(SphereVertices)
        THEN Returned([shape |-> <<3>>, data |-> SphereVertices[idx + 1]])
        ELSE Raised("IndexError")

\* Tensor.squeeze(dim=1) on a tensor [B, K]: dimension 1 is removed when
\* it is of size 1
SqueezeDim1(rows) ==
    IF \A i \in 1..Len(rows) : Len(rows[i]) = 1
    THEN [i \in 1..Len(rows) |-> rows[i][1]]
    ELSE rows

\* Tensor.reshape((-1, nb_gaussians, 3)) on a tensor [B, 3 * nb_gaussians]
ReshapeComponents(rows, nb_gaussians) ==
    [i \in 1..Len(rows) |->
        [g \in 1..nb_gaussians |->
            [a \in 1..3 |-> rows[i][3 * (g - 1) + a]]]]

\* GaussianMixtureDirectionGetter._get_gaussian_parameters
GetGaussianParameters(gaussian_params) ==
    [mixture_logits |-> SqueezeDim1(gaussian_params.mixture_logits),
     means |-> ReshapeComponents(gaussian_params.means, NbGaussians),
     sigmas |-> ReshapeComponents(gaussian_params.sigmas, NbGaussians)]

\* Noise of a draw of MultivariateNormal, in standard deviations
Noises == { <<0, 0, 0>>, <<1, -1, 0>> }

\* What Categorical(logits).sample() can return: one 0-based component per
\* element of the batch
MixtureIds(mixture_logits) ==
    [1..Len(mixture_logits) -> 0..(Len(mixture_logits[1]) - 1)]

\* A draw of the gaussian of a mean and a diagonal sigma, with where its
\* parameters were read
GaussianDraw(means, sigmas, i, m, eps) ==
    [element |-> i, component |-> m,
     value |-> [a \in 1..3 |->
                   means[i][m + 1][a] + eps[a] * sigmas[i][m + 1][a]]]

\* Variant: means[arange(B), mixture_id, :], one component per element
GaussianMixtureSamplePerElement(params, mixture_id, eps) ==
    Returned([shape |-> <<Len(params.means), 3>>,
              data |-> [i \in 1..Len(params.means) |->
                 GaussianDraw(params.means, params.sigmas, i,
                              mixture_id[i], eps)]])

\* GaussianMixtureDirectionGetter.sample_tracking_direction_prob:
\* means[:, mixture_id, :] is of shape [B, B, 3], entry [i, j] being the
\* component chosen for element j among the components of element i
GaussianMixtureSampleOutcome(params, mixture_id, eps) ==
    Returned([shape |-> <<Len(params.means), Len(mixture_id), 3>>,
              data |-> [i \in 1..Len(params.means) |->
                 [j \in 1..Len(mixture_id) |->
                    GaussianDraw(params.means, params.sigmas, i,
                                 mixture_id[j], eps)]]])

\* Batches of feature vectors of size input_size, of 1 to MaxRows rows
FeatureBatches(input_size) ==
    UNION { [1..b -> {[a \in 1..input_size |-> 0],
                      [a \in 1..input_size |-> 1]}] : b \in 1..MaxRows }

\* The number of rows of the raw outputs of a family
RowsOf(key, outputs) ==
    IF key \in RegressionKeys \cup {"sphere-classification"}
    THEN Len(outputs)
    ELSE Len(outputs.means)

\* Variant: forward reads the attributes the constructors set
ForwardReadsAsSet(key) == LayerAttributes(key)

\* The layer attributes forward reads, by family
ForwardReads(key) ==
    IF key \in RegressionKeys \cup {"sphere-classification"} THEN {"layers"}
    ELSE IF key = "gaussian" THEN {"layers_mean", "layers_sigma"}
    ELSE IF key = "gaussian-mixture"
    THEN {"layers_mixture", "layers_mean", "layers_sigma"}
    ELSE IF key = "fisher-von-mises" THEN {"layers_mean", "layers_kappa"}
    ELSE {}

\* forward: an attribute the instance does not have ends the call in
\* AttributeError; otherwise the layers map the B feature vectors to raw
\* outputs of B rows
ForwardOutcome(h, outputs) ==
    IF ForwardReads(h.key) \subseteq h.attributes
    THEN Returned(outputs)
    ELSE Raised("AttributeError")

\* Parameters sample_tracking_direction_prob of the fisher-von-mises head
\* may be given: what forward returns (kappas of shape [B], kappas_dim = 1)
\* or the same values kept as a column [B, 1] (kappas_dim = 2)
FisherParams ==
    { [p EXCEPT !.kappas_dim = d] :
          p \in OutputsOf("fisher-von-mises"), d \in {1, 2} }

\* The unit vectors orthogonal to mu among the axes
OrthoUnits(mu) ==
    { v \in { <<1, 0, 0>>, <<0, 1, 0>>, <<0, 0, 1>> } : Dot(mu, v) = 0 }

\* What _sample_weight and _sample_orthonormal_to can return for a batch:
\* w = 0 or w = 1 for each element (for which sqrt(1 - w^2) is exact) and
\* the first or the last axis orthogonal to mu
FisherDraws(params) ==
    [w : [1..Len(params.means) -> {0, 1}], first_axis : BOOLEAN]

\* v of element i under the draws
OrthoDraw(mu, first_axis) ==
    CHOOSE v \in OrthoUnits(mu) :
        \A o \in OrthoUnits(mu) :
            IF first_axis THEN Dot(v, <<4, 2, 1>>) >= Dot(o, <<4, 2, 1>>)
            ELSE Dot(v, <<4, 2, 1>>) <= Dot(o, <<4, 2, 1>>)

\* result[i, :] = v * np.sqrt(1. - w ** 2) + w * mu, for w = 0 or w = 1
FisherCombine(mu, weight, v) == Add(Scale(1 - weight * weight, v), Scale(weight, mu))

\* The directions of the loop on the elements of the batch
FisherDirections(params, kappas, draws) ==
    [shape |-> <<Len(params.means), 3>>,
     data |-> [i \in 1..Len(params.means) |->
        [kappa |-> kappas[i],
         value |-> FisherCombine(params.means[i], draws.w[i],
                       OrthoDraw(params.means[i], draws.first_axis))]]]

\* Variant: kappas is used as forward returns it
FisherVonMisesSampleNoSqueeze(params, draws) ==
    Returned(FisherDirections(params, params.kappas, draws))

\* FisherVonMisesDirectionGetter.sample_tracking_direction_prob:
\* kappas.squeeze(dim=1) ends in IndexError on a tensor of one dimension
FisherVonMisesSampleOutcome(params, draws) ==
    IF params.kappas_dim < 2
    THEN Raised("IndexError")
    ELSE Returned(FisherDirections(params, params.kappas, draws))

NoHead == [key |-> None]
NoCall == [method |-> None, tick |-> 0]

\* The caller of the head has the control: the constructor or the last
\* method called has returned to it
CallerReady == call.method \in {"__init__", "caller"}

HeadsIdle ==
    /\ head = NoHead
    /\ call = NoCall

\* A constructor of the registry is called
Construct ==
    /\ head = NoHead
    /\ call = NoCall
    /\ \E cls \in HeadClasses, input_size \in InputSizes,
          dropout \in Dropouts :
          /\ call' = [method |-> "__init__", key |-> KeyPassedBy(cls),
                      tick |-> 1 - call.tick,
                      outputs |-> <<input_size, dropout>>,
                      outcome |->
                          IF DropoutInvalid(dropout) THEN Raised("ValueError")
                          ELSE IF cls = "FisherVonMisesMixtureDirectionGetter"
                          THEN Raised("NotImplementedError")
                          ELSE Returned(None)]
          /\ head' = IF DropoutInvalid(dropout)
                        \/ cls = "FisherVonMisesMixtureDirectionGetter"
                     THEN NoHead
                     ELSE NewHead(cls, input_size, dropout, DefaultSphere,
                                  NbGaussians)
    /\ UNCHANGED <<trackVars, validVars, weightVars, saveVars,
                   moreVars>>

\* sample_tracking_direction_prob on a regression head
RegressionSample ==
    /\ head.key \in RegressionKeys
    /\ CallerReady
    /\ \E outputs \in OutputsOf(head.key) :
          call' = [method |-> "sample_tracking_direction_prob",
                   key |-> head.key, tick |-> 1 - call.tick,
                   outputs |-> outputs,
                   outcome |-> RegressionSampleOutcome(outputs)]
    /\ UNCHANGED <<head, trackVars, validVars, weightVars, saveVars,
                   moreVars>>

\* get_tracking_direction_det on a regression head
RegressionDet ==
    /\ head.key \in RegressionKeys
    /\ CallerReady
    /\ \E outputs \in OutputsOf(head.key) :
          call' = [method |-> "get_tracking_direction_det",
                   key |-> head.key, tick |-> 1 - call.tick,
                   outputs |-> outputs,
                   outcome |-> RegressionDetOutcome(outputs)]
    /\ UNCHANGED <<head, trackVars, validVars, weightVars, saveVars,
                   moreVars>>

\* get_tracking_direction_det on a gaussian head
SingleGaussianDet ==
    /\ head.key = "gaussian"
    /\ CallerReady
    /\ \E outputs \in OutputsOf(head.key) :
          call' = [method |-> "get_tracking_direction_det",
                   key |-> head.key, tick |-> 1 - call.tick,
                   outputs |-> outputs,
                   outcome |-> SingleGaussianDetOutcome(outputs)]
    /\ UNCHANGED <<head, trackVars, validVars, weightVars, saveVars,
                   moreVars>>

\* get_tracking_direction_det on a gaussian-mixture head
GaussianMixtureDet ==
    /\ head.key = "gaussian-mixture"
    /\ CallerReady
    /\ \E outputs \in OutputsOf(head.key) :
          call' = [method |-> "get_tracking_direction_det",
                   key |-> head.key, tick |-> 1 - call.tick,
                   outputs |-> outputs,
                   outcome |-> GaussianMixtureDetOutcome(outputs)]
    /\ UNCHANGED <<head, trackVars, validVars, weightVars, saveVars,
                   moreVars>>

\* forward on a head, the layers holding any weights
Forward ==
    /\ head.key \in HeadKeys
    /\ CallerReady
    /\ \E inputs \in FeatureBatches(head.input_size) :
       \E outputs \in {o \in OutputsOf(head.key) :
                          RowsOf(head.key, o) = Len(inputs)} :
          call' = [method |-> "forward", key |-> head.key,
                   tick |-> 1 - call.tick, inputs |-> inputs,
                   outcome |-> ForwardOutcome(head, outputs)]
    /\ UNCHANGED <<head, trackVars, validVars, weightVars, saveVars,
                   moreVars>>

\* sample_tracking_direction_prob on a gaussian-mixture head
GaussianMixtureSample ==
    /\ head.key = "gaussian-mixture"
    /\ CallerReady
    /\ \E outputs \in OutputsOf(head.key), eps \in Noises :
        LET params == GetGaussianParameters(outputs)
        IN  \E mixture_id \in MixtureIds(params.mixture_logits) :
              call' = [method |-> "sample_tracking_direction_prob",
                       key |-> head.key, tick |-> 1 - call.tick,
                       outputs |-> outputs,
                       draws |-> [mixture_id |-> mixture_id, eps |-> eps],
                       outcome |-> GaussianMixtureSampleOutcome(
                                       params, mixture_id, eps)]
    /\ UNCHANGED <<head, trackVars, validVars, weightVars, saveVars,
                   moreVars>>

\* sample_tracking_direction_prob on a fisher-von-mises head
FisherVonMisesSample ==
    /\ head.key = "fisher-von-mises"
    /\ CallerReady
    /\ \E outputs \in FisherParams :
       \E draws \in FisherDraws(outputs) :
          call' = [method |-> "sample_tracking_direction_prob",
                   key |-> head.key, tick |-> 1 - call.tick,
                   outputs |-> outputs, draws |-> draws,
                   outcome |-> FisherVonMisesSampleOutcome(outputs, draws)]
    /\ UNCHANGED <<head, trackVars, validVars, weightVars, saveVars,
                   moreVars>>

\* get_tracking_direction_det on a fisher-von-mises head
FisherVonMisesDet ==
    /\ head.key = "fisher-von-mises"
    /\ CallerReady
    /\ \E outputs \in OutputsOf(head.key) :
          call' = [method |-> "get_tracking_direction_det",
                   key |-> head.key, tick |-> 1 - call.tick,
                   outputs |-> outputs,
                   outcome |-> FisherVonMisesDetOutcome(outputs)]
    /\ UNCHANGED <<head, trackVars, validVars, weightVars, saveVars,
                   moreVars>>

\* get_tracking_direction_det on a sphere-classification head
SphereDet ==
    /\ head.key = "sphere-classification"
    /\ CallerReady
    /\ \E outputs \in OutputsOf(head.key) :
          call' = [method |-> "get_tracking_direction_det",
                   key |-> head.key, tick |-> 1 - call.tick,
                   outputs |-> outputs,
                   outcome |-> SphereDetOutcome(outputs)]
    /\ UNCHANGED <<head, trackVars, validVars, weightVars, saveVars,
                   moreVars>>

\* _find_closest_vertex on a sphere-classification head: the vertices are
\* first moved to the device of the directions
FindClosestVertex ==
    /\ head.key = "sphere-classification"
    /\ CallerReady
    /\ \E directions \in TargetBatches, device \in Devices :
          /\ head' = [head EXCEPT !.vertices_device = device]
          /\ call' = [method |-> "_find_closest_vertex", key |-> head.key,
                      tick |-> 1 - call.tick, outputs |-> directions,
                      outcome |-> Returned(ClosestVertex(directions))]
    /\ UNCHANGED <<trackVars, validVars, weightVars, saveVars,
                   moreVars>>

\* A method ends and the control is back in the caller, with the outcome
\* The constructor of the head's class is called with keyword arguments
\* taken from the head's params: all of them, or those the constructor takes
InitFromParams ==
    /\ head.key \in HeadKeys
    /\ CallerReady
    /\ \E all \in BOOLEAN :
          LET kwargs == IF all THEN Params(head)
                        ELSE Restrict(Params(head),
                                      ConstructorKeywords(head.cls))
          IN  call' = [method |-> "init_from_params", key |-> head.key,
                       tick |-> 1 - call.tick,
                       all |-> all,
                       outcome |-> ConstructFrom(head.cls, kwargs)]
    /\ UNCHANGED <<head, trackVars, validVars, weightVars, saveVars,
                   moreVars>>

ReturnToCaller ==
    /\ head.key \in HeadKeys
    /\ ~CallerReady
    /\ call' = [method |-> "caller", tick |-> call.tick]
    /\ UNCHANGED <<head, trackVars, validVars, weightVars, saveVars,
                   moreVars>>

NextHeads ==
    \/ Construct
    \/ ReturnToCaller
    \/ RegressionSample
    \/ RegressionDet
    \/ SingleGaussianDet
    \/ GaussianMixtureDet
    \/ Forward
    \/ GaussianMixtureSample
    \/ FisherVonMisesSample
    \/ FisherVonMisesDet
    \/ SphereDet
    \/ FindClosestVertex
    \/ InitFromParams

InitHeads ==
    HeadsIdle /\ TrackOff /\ ValidOff /\ WeightOff /\ SaveOff /\ MoreOff

SpecHeads == InitHeads /\ [][NextHeads]_vars

----------------------------------------------------------------------------
(* FisherVonMisesDirectionGetter._sample_weight: the rejection loop.       *)
(* Numbers are fractions <<n, d>> in lowest terms with d > 0; np.log is    *)
(* computed in fixed point, in units of 1 / LnScale.                       *)

MaxDraws == 3
LnScale == 10000
LnTerms == 12

\* The element of a singleton; the operators below bind their operands
\* with it, so that each operand is evaluated once
The(S) == CHOOSE r \in S : TRUE

RECURSIVE GCD(_, _)
GCD(a, b) ==
    IF b = 0 THEN a ELSE The({ GCD(bb, m) : bb \in {b}, m \in {a % b} })

\* The fraction n / d in lowest terms, d # 0
Frac(n, d) ==
    The({ The({ <<sn \div g, sd \div g>> : g \in {GCD(Abs(sn), sd)} }) :
            sn \in {IF d < 0 THEN -n ELSE n}, sd \in {Abs(d)} })

FAdd(p, q) ==
    The({ Frac(a[1] * c[2] + c[1] * a[2], a[2] * c[2]) :
            a \in {p}, c \in {q} })
FSub(p, q) ==
    The({ Frac(a[1] * c[2] - c[1] * a[2], a[2] * c[2]) :
            a \in {p}, c \in {q} })
FMul(p, q) ==
    The({ Frac(a[1] * c[1], a[2] * c[2]) : a \in {p}, c \in {q} })
FDiv(p, q) ==
    The({ Frac(a[1] * c[2], a[2] * c[1]) : a \in {p}, c \in {q} })
One == <<1, 1>>
Two == <<2, 1>>
Four == <<4, 1>>

\* np.sqrt of a fraction that is the square of a fraction
FSqrt(p) ==
    The({ Frac(CHOOSE r \in 0..a[1] : r * r = a[1],
               CHOOSE r \in 0..a[2] : r * r = a[2]) : a \in {p} })

\* A fraction in fixed point, rounded down
Fix(p) ==
    The({ (a[1] \div a[2]) * LnScale + ((a[1] % a[2]) * LnScale) \div a[2] :
            a \in {p} })

RECURSIVE LnSeries(_, _, _, _)
\* The sum of the terms y^(2k+1) / (2k+1), k < LnTerms, in fixed point
LnSeries(term, y2, k, acc) ==
    IF k = LnTerms THEN acc
    ELSE The({ LnSeries(t, y2, k + 1, a) :
                 t \in {(term * y2) \div LnScale},
                 a \in {acc + term \div (2 * k + 1)} })

\* np.log of a positive fraction: 2 * atanh((p - 1) / (p + 1))
Ln(p) ==
    The({ The({ 2 * LnSeries(y, y2, 0, 0) : y2 \in {(y * y) \div LnScale} }) :
            y \in { ((a[1] - a[2]) * LnScale) \div (a[1] + a[2]) :
                      a \in {p} } })

\* The values of kappa: (m^2 - 1) / (2 m) for m = 1, 2, 3, 20, for which
\* sqrt(4 kappa^2 + 4) is a fraction; they lie in [0, 20]
Kappas == { <<0, 1>>, <<3, 4>>, <<4, 3>>, <<399, 40>> }

\* What np.random.beta(1., 1.) and np.random.uniform(0, 1) return
Zs == { <<1, 10>>, <<1, 4>>, <<1, 2>>, <<3, 4>>, <<9, 10>> }
Us == { <<0, 1>>, <<1, 4>>, <<3, 4>>, <<99, 100>> }

NoDraw == <<>>

\* b, x and c of _sample_weight (c in fixed point)
SampleWeightSetup(kap) ==
    The({ The({ [b |-> bv, x |-> xv,
                 c |-> Fix(FMul(kap, xv))
                         + 2 * Ln(FSub(One, FMul(xv, xv)))] :
                xv \in {FDiv(FSub(One, bv), FAdd(One, bv))} }) :
          bv \in {FDiv(Two,
                       FAdd(FSqrt(FAdd(FMul(Four, FMul(kap, kap)), Four)),
                            FMul(Two, kap)))} })

\* w = (1. - (1. + b) * z) / (1. - (1. - b) * z)
Candidate(b, zz) ==
    FDiv(FSub(One, FMul(FAdd(One, b), zz)),
         FSub(One, FMul(FSub(One, b), zz)))

\* kappa * w + 2 * np.log(1. - x * w) - c, in fixed point
TestValue(kap, setup, ww) ==
    Fix(FMul(kap, ww)) + 2 * Ln(FSub(One, FMul(setup.x, ww))) - setup.c

\* Variant: the test is on c alone, without the candidate
AcceptsOnC(kap, setup, ww, uu) ==
    uu[1] = 0 \/ 0 - setup.c >= Ln(uu)

\* The acceptance test; np.log(0) is -inf, below every value
Accepts(kap, setup, ww, uu) ==
    uu[1] = 0 \/ TestValue(kap, setup, ww) >= Ln(uu)

\* _sample_weight(kappa) is called
WeightCalled ==
    /\ wpc = "called"
    /\ kappa \in Kappas
    /\ bxc = NoDraw
    /\ z = NoDraw
    /\ u = NoDraw
    /\ w = NoDraw
    /\ sampled_w = NoDraw
    /\ nb_draws = 0

\* Lines 760-762: b, x and c
ComputeSetup ==
    /\ wpc = "called"
    /\ bxc' = SampleWeightSetup(kappa)
    /\ wpc' = "loop"
    /\ UNCHANGED <<kappa, z, u, w, sampled_w, nb_draws, trackVars, validVars,
                   headVars, saveVars,
                   moreVars>>

\* Lines 765-767 with z and u as drawn: the candidate of one iteration
DrawWith(zz, uu) ==
    /\ wpc = "loop"
    /\ z' = zz
    /\ u' = uu
    /\ w' = Candidate(bxc.b, zz)
    /\ nb_draws' = Min(nb_draws + 1, MaxDraws)
    /\ wpc' = "test"
    /\ UNCHANGED <<kappa, bxc, sampled_w, trackVars, validVars, headVars,
                   saveVars,
                   moreVars>>

\* Lines 765-767: the draws of one iteration
DrawCandidate == \E zz \in Zs, uu \in Us : DrawWith(zz, uu)

\* Lines 768-769: the candidate passes the test and is returned
AcceptCandidate ==
    /\ wpc = "test"
    /\ Accepts(kappa, bxc, w, u)
    /\ sampled_w' = w
    /\ wpc' = "returned"
    /\ UNCHANGED <<kappa, bxc, z, u, w, nb_draws, trackVars, validVars,
                   headVars, saveVars,
                   moreVars>>

\* Line 764: the candidate is rejected, the loop goes on
RejectCandidate ==
    /\ wpc = "test"
    /\ ~Accepts(kappa, bxc, w, u)
    /\ wpc' = "loop"
    /\ UNCHANGED <<kappa, bxc, z, u, w, sampled_w, nb_draws, trackVars,
                   validVars, headVars, saveVars,
                   moreVars>>

NextWeight ==
    \/ ComputeSetup
    \/ DrawCandidate
    \/ AcceptCandidate
    \/ RejectCandidate

InitWeight ==
    WeightCalled /\ TrackOff /\ ValidOff /\ HeadsOff /\ SaveOff /\ MoreOff

\* An iteration whose draws pass the test
AcceptingDraw ==
    \E zz \in Zs, uu \in Us :
        /\ wpc = "loop"
        /\ Accepts(kappa, bxc, Candidate(bxc.b, zz), uu)
        /\ DrawWith(zz, uu)

\* The loop keeps running, and draws that pass the test are not avoided
\* for ever
SpecWeight ==
    /\ InitWeight
    /\ [][NextWeight]_vars
    /\ WF_vars(NextWeight)
    /\ SF_vars(AcceptingDraw)

----------------------------------------------------------------------------
(* MainModelAbstract.save (main_models.py): the directories "model" and    *)
(* "model_old" of saving_dir, one file-system operation per step; the      *)
(* process may stop between any two of them.                               *)

MaxSaves == 4

\* A file: absent, opened and not completely written, or complete, with
\* the version of the model it was written from
NoFile == [state |-> "absent", v |-> 0]
PartialFile(v) == [state |-> "partial", v |-> v]
CompleteFile(v) == [state |-> "complete", v |-> v]

\* A directory with parametersr.json and best_model_state.pkl
NoDir == [exists |-> FALSE, params |-> NoFile, weights |-> NoFile]
EmptyDir == [exists |-> TRUE, params |-> NoFile, weights |-> NoFile]

\* saving_dir: model, model_old and model_old/model
EmptySavingDir == [model |-> NoDir, model_old |-> NoDir, nested |-> NoDir]

\* shutil.move(model_dir, to_remove): a rename when model_old does not
\* exist; into model_old when it is a directory, which fails when
\* model_old/model exists
MoveFails(d) == d.model_old.exists /\ d.nested.exists

MoveModelToBackup(d) ==
    IF ~d.model_old.exists
    THEN [d EXCEPT !.model_old = d.model, !.model = NoDir]
    ELSE [d EXCEPT !.nested = d.model, !.model = NoDir]

\* shutil.rmtree(to_remove)
RemoveBackup(d) == [d EXCEPT !.model_old = NoDir, !.nested = NoDir]

\* Variant: the backup is removed as soon as the new directory is made
StepAfterRemoveFirst(step) ==
    CASE step = "makedirs" -> "rmtree"
      [] step = "rmtree" -> "open_params"
      [] step = "open_params" -> "write_params"
      [] step = "write_params" -> "open_weights"
      [] step = "open_weights" -> "write_weights"
      [] step = "write_weights" -> "completed"

\* The order of the statements of save after the backup
StepAfter(step) ==
    CASE step = "makedirs" -> "open_params"
      [] step = "open_params" -> "write_params"
      [] step = "write_params" -> "open_weights"
      [] step = "open_weights" -> "write_weights"
      [] step = "write_weights" -> "rmtree"
      [] step = "rmtree" -> "completed"

SaveSteps == {"exists", "move", "makedirs", "open_params", "write_params",
              "open_weights", "write_weights", "rmtree"}

\* A new saving directory, nothing saved
SaveIdle ==
    /\ spc = "idle"
    /\ disk = EmptySavingDir
    /\ to_remove = None
    /\ version = 0
    /\ saved = 0

\* save(saving_dir) is called on a model in a new state (lines 62-68)
SaveCalled ==
    /\ spc \in {"idle", "completed", "failed"}
    /\ version < MaxSaves
    /\ version' = version + 1
    /\ to_remove' = None
    /\ spc' = "exists"
    /\ UNCHANGED <<disk, saved, trackVars, validVars, headVars, weightVars,
                   moreVars>>

\* if os.path.exists(model_dir) (lines 69-70)
CheckExists ==
    /\ spc = "exists"
    /\ IF disk.model.exists
       THEN to_remove' = "model_old" /\ spc' = "move"
       ELSE to_remove' = None /\ spc' = "makedirs"
    /\ UNCHANGED <<disk, version, saved, trackVars, validVars, headVars,
                   weightVars,
                   moreVars>>

\* shutil.move(model_dir, to_remove) (line 71)
MoveToBackup ==
    /\ spc = "move"
    /\ IF MoveFails(disk)
       THEN spc' = "failed" /\ disk' = disk
       ELSE spc' = "makedirs" /\ disk' = MoveModelToBackup(disk)
    /\ UNCHANGED <<to_remove, version, saved, trackVars, validVars,
                   headVars, weightVars,
                   moreVars>>

\* os.makedirs(model_dir) (line 72)
MakeDirs ==
    /\ spc = "makedirs"
    /\ IF disk.model.exists
       THEN spc' = "failed" /\ disk' = disk
       ELSE spc' = StepAfter(spc) /\ disk' = [disk EXCEPT !.model = EmptyDir]
    /\ UNCHANGED <<to_remove, version, saved, trackVars, validVars,
                   headVars, weightVars,
                   moreVars>>

\* open(name, 'w') (lines 75-76)
OpenParams ==
    /\ spc = "open_params"
    /\ disk' = [disk EXCEPT !.model.params = PartialFile(version)]
    /\ spc' = StepAfter(spc)
    /\ UNCHANGED <<to_remove, version, saved, trackVars, validVars,
                   headVars, weightVars,
                   moreVars>>

\* json_file.write(...) and the end of the with block (lines 77-78)
WriteParams ==
    /\ spc = "write_params"
    /\ disk' = [disk EXCEPT !.model.params = CompleteFile(version)]
    /\ spc' = StepAfter(spc)
    /\ UNCHANGED <<to_remove, version, saved, trackVars, validVars,
                   headVars, weightVars,
                   moreVars>>

\* torch.save opens best_model_state.pkl (lines 81-82)
OpenWeights ==
    /\ spc = "open_weights"
    /\ disk' = [disk EXCEPT !.model.weights = PartialFile(version)]
    /\ spc' = StepAfter(spc)
    /\ UNCHANGED <<to_remove, version, saved, trackVars, validVars,
                   headVars, weightVars,
                   moreVars>>

\* torch.save has written best_model_state.pkl (lines 81-82): the
\* parameters and the weights of this version are complete
WriteWeights ==
    /\ spc = "write_weights"
    /\ disk' = [disk EXCEPT !.model.weights = CompleteFile(version)]
    /\ saved' = IF disk.model.params = CompleteFile(version)
                THEN version ELSE saved
    /\ spc' = StepAfter(spc)
    /\ UNCHANGED <<to_remove, version, trackVars, validVars, headVars,
                   weightVars,
                   moreVars>>

\* if to_remove: shutil.rmtree(to_remove) (lines 84-85)
RemoveOld ==
    /\ spc = "rmtree"
    /\ disk' = IF to_remove # None THEN RemoveBackup(disk) ELSE disk
    /\ spc' = StepAfter(spc)
    /\ UNCHANGED <<to_remove, version, saved, trackVars, validVars,
                   headVars, weightVars,
                   moreVars>>

\* The process stops between two file-system operations
Crash ==
    /\ spc \in SaveSteps
    /\ spc' = "failed"
    /\ UNCHANGED <<disk, to_remove, version, saved, trackVars, validVars,
                   headVars, weightVars,
                   moreVars>>

NextSave ==
    \/ SaveCalled
    \/ CheckExists
    \/ MoveToBackup
    \/ MakeDirs
    \/ OpenParams
    \/ WriteParams
    \/ OpenWeights
    \/ WriteWeights
    \/ RemoveOld
    \/ Crash

InitSave ==
    SaveIdle /\ TrackOff /\ ValidOff /\ HeadsOff /\ WeightOff /\ MoreOff

SpecSave == InitSave /\ [][NextSave]_vars

NextEngine == CallEngine \/ EngineStep \/ EngineReturn

SpecEngine == Init /\ [][NextEngine]_vars

----------------------------------------------------------------------------
(* Properties of the propagation. *)

ActiveSet == {continuing_lines_rawidx[i] : i \in 1..Len(continuing_lines_rawidx)}
Terminated == {r \in 1..Len(final_lines) : final_lines[r] # NoLine}
IsStep == pc = "propagating" /\ nb_steps' = nb_steps + 1

\* C1: at every step of the propagation, the continuing lines and the
\* terminated lines together are exactly the lines passed in, each once:
\* their numbers add up to the number of input lines.
C1_ActivePlusTerminated ==
    pc # "idle" =>
        /\ Len(lines) = Len(continuing_lines_rawidx)
        /\ Cardinality(ActiveSet) = Len(lines)
        /\ ActiveSet \cap Terminated = {}
        /\ ActiveSet \cup Terminated = 1..Len(data)
        /\ Len(lines) + Cardinality(Terminated) = Len(data)

\* C1 witness: after a step, some lines continue and some are terminated
C1_Witness ==
    /\ pc = "propagating"
    /\ nb_steps >= 1
    /\ Len(lines) >= 1
    /\ Cardinality(Terminated) >= 1

\* C2: the set of continuing lines never grows, and a terminated line is
\* never continued again and keeps its points.
C2_ActiveSetShrinks ==
    [][pc # "idle" =>
          /\ ActiveSet' \subseteq ActiveSet
          /\ \A r \in Terminated :
                r \notin ActiveSet' /\ final_lines'[r] = final_lines[r]]_vars

\* C2 witness: a line stopped at the first step, and a second step was taken
C2_Witness ==
    /\ nb_steps >= 2
    /\ \E r \in Terminated :
          /\ stop_reason[r] \in {"angle", "mask"}
          /\ ~append_last_point
          /\ final_lines[r] = seeds[r]

\* C3: a continuing line whose new direction makes an angle above theta with
\* its previous direction is terminated at that step without a new point, and
\* keeps these points ever after.
C3_AngleTerminates ==
    [][/\ IsStep =>
            \A i \in 1..Len(lines) :
                (/\ Len(lines[i]) >= 2
                 /\ Angle(next_dirs'[i],
                          Sub(Last(lines[i]), lines[i][Len(lines[i]) - 1]))
                       > theta)
                => /\ continuing_lines_rawidx[i] \notin ActiveSet'
                   /\ final_lines'[continuing_lines_rawidx[i]] = lines[i]
       /\ \A r \in Terminated : final_lines'[r] = final_lines[r]]_vars

\* C3 witness: with theta = 90 degrees, a line that turned back was stopped
\* with the points it had, while another line of the batch was advanced
C3_Witness ==
    /\ pc = "returned"
    /\ theta = 90
    /\ \E r \in Terminated : \E q \in Terminated :
          /\ stop_reason[r] = "angle"
          /\ Len(final_lines[r]) = Len(seeds[r]) + 1
          /\ stop_reason[q] = "max_nbr_pts"
          /\ Len(final_lines[q]) = Len(seeds[q]) + 2

\* The new point of continuing line i, from the model's direction
NewPointOf(i) ==
    Add(Last(lines[i]), Scale(step_size, Normalize(next_dirs'[i])))

C5_AtMostMaxNbrPts ==
    pc = "returned" =>
        \A r \in 1..Len(final_lines) :
            Len(final_lines[r]) <= MaxLengthMm \div step_size

\* C6: the propagation returns one streamline per input line, in the input
\* order, each beginning with the points of its seed; the i-th loss compares
\* the i-th generated end point with the i-th ground-truth end point.
C6_OutputOrder ==
    /\ pc \in {"returned", "scored"} =>
          /\ Len(final_lines) = Len(data)
          /\ \A i \in 1..Len(data) :
                LET k == Min(Len(data[i]), nb_steps_init)
                IN  /\ Len(final_lines[i]) >= k
                    /\ SubSeq(final_lines[i], 1, k) = SubSeq(data[i], 1, k)
    /\ pc = "scored" =>
          /\ Len(result.loss) = Len(data)
          /\ \A i \in 1..Len(data) :
                result.loss[i] = DistSq(Last(final_lines[i]), Last(data[i]))

\* C6 witness: two different lines, the first removed at the first step, the
\* second advanced further
C6_Witness ==
    /\ pc = "scored"
    /\ Len(data) >= 2
    /\ data[1] # data[2]
    /\ final_lines[1] = seeds[1]
    /\ Len(final_lines[2]) >= Len(seeds[2]) + 2

NbFar ==
    Cardinality({i \in 1..Len(data) :
        10000 * DistSq(Last(final_lines[i]), Last(data[i])) > 2598 * 2598})

\* C8: the IS ratio is 100 * (number of lines whose generated end point is
\* farther than 25.98 from the end point of the untruncated ground-truth
\* line) / n; it is 0 when all end points agree, 100 for a single line too
\* far, and lies in [0, 100].
C8_ISRatio ==
    pc = "scored" =>
        /\ result.n = Len(data)
        /\ result.IS_ratio.den = Len(data)
        /\ result.IS_ratio.num = 100 * NbFar
        /\ 0 <= result.IS_ratio.num
        /\ result.IS_ratio.num <= 100 * result.IS_ratio.den
        /\ (\A i \in 1..Len(data) : Last(final_lines[i]) = Last(data[i]))
              => result.IS_ratio.num = 0
        /\ (Len(data) = 1 /\ NbFar = 1)
              => result.IS_ratio.num = 100 * result.IS_ratio.den

\* C8 witness: a batch of two lines; one end point is off the end of the
\* untruncated ground truth but within the threshold, the other, of a
\* propagated line, is beyond the threshold
C8_Witness ==
    /\ pc = "scored"
    /\ Len(data) = 2
    /\ result.IS_ratio.num = 100
    /\ \E i \in 1..2 :
          /\ Len(seeds[i]) < Len(data[i])
          /\ result.loss[i] > 0
          /\ ~IsInvalid(result.loss[i])
    /\ \E i \in 1..2 :
          /\ Len(final_lines[i]) > Len(seeds[i])
          /\ IsInvalid(result.loss[i])

----------------------------------------------------------------------------
(* Properties of validate_using_tracking. *)

\* C9: when k batches have been processed, each monitor holds exactly k
\* updates, the j-th with the weight (and value) of the j-th batch, and no
\* batch of index >= nb_valid_batches_per_epoch updates a monitor.
C9_OneUpdatePerBatch ==
    vpc \in {"loop", "done"} =>
        LET lv == tracking_valid_loss_monitor.current_batch_values
            lw == tracking_valid_loss_monitor.current_batch_weights
            iv == tracking_valid_IS_monitor.current_batch_values
            iw == tracking_valid_IS_monitor.current_batch_weights
        IN  /\ Len(lv) = batch_id /\ Len(lw) = batch_id
            /\ Len(iv) = batch_id /\ Len(iw) = batch_id
            /\ batch_id <= nb_valid_batches_per_epoch
            /\ batch_id <= Len(valid_dataloader)
            /\ \A j \in 1..batch_id :
                  /\ lw[j] = valid_dataloader[j].n
                  /\ iw[j] = valid_dataloader[j].n
                  /\ lv[j] = valid_dataloader[j].mean_loss
                  /\ iv[j].num = 100 * valid_dataloader[j].far
                  /\ iv[j].den = valid_dataloader[j].n
            /\ vpc = "done" =>
                  batch_id = Min(Len(valid_dataloader),
                                 nb_valid_batches_per_epoch)

\* C9 witness: the loop was broken with a batch left in the loader, after an
\* update of weight 2
C9_Witness ==
    /\ vpc = "done"
    /\ batch_id = nb_valid_batches_per_epoch
    /\ batch_id < Len(valid_dataloader)
    /\ tracking_valid_IS_monitor.current_batch_weights = <<2>>
    /\ tracking_valid_loss_monitor.current_batch_weights = <<2>>

----------------------------------------------------------------------------
(* Properties of the heads. *)

\* C10: on a regression head sample_tracking_direction_prob ends in the
\* not-supported error and get_tracking_direction_det returns its input; on
\* a gaussian, gaussian-mixture or fisher-von-mises head
\* get_tracking_direction_det ends in the not-supported error; a call that
\* ends in this error leaves the head as it was.
C10_Capabilities ==
    [][(head.key # None /\ call'.tick # call.tick) =>
          /\ (call'.method = "sample_tracking_direction_prob"
              /\ head.key \in {"cosine-regression", "l2-regression"})
                => call'.outcome.kind = "NotImplementedError"
          /\ (call'.method = "get_tracking_direction_det"
              /\ head.key \in {"gaussian", "gaussian-mixture",
                               "fisher-von-mises"})
                => call'.outcome.kind = "NotImplementedError"
          /\ (call'.method = "get_tracking_direction_det"
              /\ head.key \in {"cosine-regression", "l2-regression"})
                => /\ call'.outcome.kind = "returned"
                   /\ call'.outcome.value = call'.outputs
          /\ call'.outcome.kind = "NotImplementedError" => head' = head]_vars

\* C10 witness: a gaussian head on which the deterministic direction was
\* asked for a batch of two rows
C10_Witness ==
    /\ head.key = "gaussian"
    /\ call.method = "get_tracking_direction_det"
    /\ Len(call.outputs.means) = 2
    /\ call.outcome.kind = "NotImplementedError"

\* The directions a returned tensor holds: one for shape [3], B for [B, 3]
DirectionsIn(t) ==
    IF t.shape = <<3>> THEN <<t.data>>
    ELSE IF Len(t.shape) = 2 THEN t.data
    ELSE <<>>

\* C11: on a sphere-classification head, get_tracking_direction_det of B
\* rows of logits returns B directions, the i-th being the vertex of the
\* highest logit of row i.
C11_ArgmaxPerRow ==
    (head.key = "sphere-classification"
     /\ call.method = "get_tracking_direction_det")
       => /\ call.outcome.kind = "returned"
          /\ Len(DirectionsIn(call.outcome.value)) = Len(call.outputs)
          /\ \A i \in 1..Len(call.outputs) :
                DirectionsIn(call.outcome.value)[i] =
                    SphereVertices[FirstArgMax(call.outputs[i], 1) + 1]

\* Positive factors a target is scaled by
ScaleFactors == {2, 3}

\* C12: _find_closest_vertex returns, for every target, the index of the
\* vertex of largest dot product with it, the lowest such index on a tie; a
\* target equal to vertex j gives j, and a target scaled by a positive
\* factor gives the same index.
C12_ClosestVertex ==
    call.method = "_find_closest_vertex"
      => /\ Len(call.outcome.value) = Len(call.outputs)
         /\ \A i \in 1..Len(call.outputs) :
              LET d == call.outputs[i]
                  idx == call.outcome.value[i]
              IN  /\ idx \in 0..(Len(SphereVertices) - 1)
                  /\ \A j \in 1..Len(SphereVertices) :
                        /\ Dot(d, SphereVertices[j])
                              <= Dot(d, SphereVertices[idx + 1])
                        /\ j < idx + 1 => Dot(d, SphereVertices[j])
                                             < Dot(d, SphereVertices[idx + 1])
                        /\ d = SphereVertices[j] => idx = j - 1
                  /\ \A k \in ScaleFactors :
                        ClosestVertex(<<Scale(k, d)>>)[1] = idx

\* C12 witness: a batch of a target at equal distance of vertices 0 and 1,
\* classified 0, and of a target equal to vertex 1, classified 1
C12_Witness ==
    /\ call.method = "_find_closest_vertex"
    /\ call.outputs = << <<1, 1, 0>>, <<0, 1, 0>> >>
    /\ call.outcome.value = <<0, 1>>

\* The draws a returned tensor holds, in row-major order
DrawsIn(t) ==
    IF Len(t.shape) = 2 THEN t.data
    ELSE IF Len(t.shape) = 3 THEN Flatten(t.data)
    ELSE <<>>

\* C13: on a gaussian-mixture head, sample_tracking_direction_prob on a
\* batch of B elements returns B directions, the i-th drawn from the
\* gaussian of the component picked for element i, with the mean and the
\* sigma of element i.
C13_OwnComponentSampled ==
    (head.key = "gaussian-mixture"
     /\ call.method = "sample_tracking_direction_prob")
       => /\ call.outcome.kind = "returned"
          /\ Len(DrawsIn(call.outcome.value)) = Len(call.outputs.means)
          /\ \A i \in 1..Len(call.outputs.means) :
                DrawsIn(call.outcome.value)[i] =
                    GaussianDraw(
                        ReshapeComponents(call.outputs.means, NbGaussians),
                        ReshapeComponents(call.outputs.sigmas, NbGaussians),
                        i, call.draws.mixture_id[i], call.draws.eps)

\* C14: forward on a batch of B feature vectors returns the raw outputs of
\* the family of the head, of B rows, and does not end in an error.
C14_ForwardReturns ==
    call.method = "forward"
      => /\ call.outcome.kind = "returned"
         /\ call.outcome.value \in OutputsOf(head.key)
         /\ RowsOf(head.key, call.outcome.value) = Len(call.inputs)

\* C15: on a fisher-von-mises head, sample_tracking_direction_prob on the
\* (means, kappas) that forward returns gives B directions, the i-th being
\* v * sqrt(1 - w^2) + w * mu with the mean and the kappa of element i.
C15_FisherSampleReturns ==
    (head.key = "fisher-von-mises"
     /\ call.method = "sample_tracking_direction_prob"
     /\ call.outputs \in OutputsOf("fisher-von-mises"))
       => /\ call.outcome.kind = "returned"
          /\ call.outcome.value.shape = <<Len(call.outputs.means), 3>>
          /\ \A i \in 1..Len(call.outputs.means) :
                /\ call.outcome.value.data[i].kappa = call.outputs.kappas[i]
                /\ call.outcome.value.data[i].value =
                      FisherCombine(call.outputs.means[i], call.draws.w[i],
                          OrthoDraw(call.outputs.means[i],
                                    call.draws.first_axis))

----------------------------------------------------------------------------
(* Properties of _sample_weight. *)

\* C16: the loop of _sample_weight retries after every rejected candidate,
\* without a bound on the iterations; when draws that pass the test keep
\* being possible it eventually returns, and what it returns is the
\* candidate of the iteration whose test passed.
C16_SampleWeightReturns ==
    /\ <>(wpc = "returned")
    /\ [](wpc = "returned" =>
            /\ sampled_w = w
            /\ w = Candidate(bxc.b, z)
            /\ (u[1] = 0 \/ TestValue(kappa, bxc, w) >= Ln(u)))
    /\ [][(wpc = "test" /\ ~(u[1] = 0 \/ TestValue(kappa, bxc, w) >= Ln(u)))
            => wpc' = "loop"]_vars

\* C16 witness: _sample_weight returned at its third iteration or later,
\* for the largest kappa
C16_Witness ==
    /\ wpc = "returned"
    /\ kappa = <<399, 40>>
    /\ nb_draws = MaxDraws

----------------------------------------------------------------------------
(* Properties of save. *)

\* The directory holds the complete parameters and weights of version v
HoldsVersion(dir, v) ==
    /\ dir.exists
    /\ dir.params = CompleteFile(v)
    /\ dir.weights = CompleteFile(v)

\* C17: whatever the saving directory held when save was called, a save
\* that ran to completion leaves a model directory with the parameters and
\* the weights it has just written and no model_old directory.
C17_CompletedSaveLeavesNoBackup ==
    spc = "completed"
      => /\ HoldsVersion(disk.model, version)
         /\ ~disk.model_old.exists

\* C18: once a version was completely written, the last such version is
\* on disk in every state, in model, in model_old or in model_old/model,
\* and a save that stops after it moved the previous model aside leaves
\* model_old in place.
C18_LastSavedKept ==
    /\ [](saved # 0 =>
            \/ HoldsVersion(disk.model, saved)
            \/ HoldsVersion(disk.model_old, saved)
            \/ HoldsVersion(disk.nested, saved))
    /\ [][(spc' = "failed" /\ to_remove # None
            /\ spc \in SaveSteps \ {"exists", "move"})
             => disk'.model_old.exists]_vars

\* C18 witness: the second save stopped with the new parameters half
\* written, the first version being whole in model_old
C18_Witness ==
    /\ spc = "failed"
    /\ saved = 1
    /\ version = 2
    /\ disk.model.params = PartialFile(2)
    /\ HoldsVersion(disk.model_old, 1)

\* C19 as stated: the constructor of the head's class, called with all of
\* the head's params as keyword arguments, returns a head with equal params
C19_ParamsRecreate ==
    (call.method = "init_from_params" /\ call.all)
        => /\ call.outcome.kind = "returned"
           /\ Params(call.outcome.value) = Params(head)

\* C19, amended: the call with all of params is refused with a TypeError
\* (no constructor takes 'key' or 'loss'); the call with the entries of
\* params that the constructor takes as keywords returns a head of the same
\* class whose params equal the params of the head
C19_ConstructorParamsRecreate ==
    call.method = "init_from_params"
        => IF call.all
           THEN call.outcome.kind = "TypeError"
           ELSE /\ call.outcome.kind = "returned"
                /\ call.outcome.value.cls = head.cls
                /\ Params(call.outcome.value) = Params(head)
                /\ DOMAIN Params(head)
                      = ConstructorKeywords(head.cls) \cup {"key", "loss"}

C19_Witness ==
    /\ call.method = "init_from_params"
    /\ ~call.all
    /\ head.key = "gaussian-mixture"
    /\ head.dropout = <<5>>
    /\ call.outcome.kind = "returned"
    /\ call.outcome.value.nb_gaussians = NbGaussians

\* C20: the registry maps exactly seven keys to seven distinct classes;
\* the key of every head is the registry key of its class, its
\* supports_compressed_streamlines flag is true exactly for l2-regression,
\* gaussian and gaussian-mixture, and no step changes the key or the flag
\* of a constructed head
C20_RegistryKeys ==
    /\ [](/\ Cardinality(DOMAIN keys_to_direction_getters) = 7
          /\ Cardinality(HeadClasses) = 7
          /\ head # NoHead
               => /\ head.key \in DOMAIN keys_to_direction_getters
                  /\ keys_to_direction_getters[head.key] = head.cls
                  /\ head.supports_compressed_streamlines
                       = (head.key \in {"l2-regression", "gaussian",
                                        "gaussian-mixture"}))
    /\ [][head # NoHead
           => /\ head'.key = head.key
              /\ head'.supports_compressed_streamlines
                   = head.supports_compressed_streamlines]_vars

C20_Witness ==
    /\ head # NoHead
    /\ head.cls = "GaussianMixtureDirectionGetter"
    /\ head.key = "gaussian-mixture"
    /\ head.supports_compressed_streamlines
    /\ call.method = "caller"

----------------------------------------------------------------------------
(* The transformer (transforming_tractography.py): constructor, set_context *)
(* and forward up to the masks.                                            *)

\* Keys of keys_to_embeddings and keys_to_positional_encodings, as the
\* docstring of the constructor names them
EmbeddingKeys == {"no_embedding", "nn_embedding"}
PositionalEncodingKeys == {"sinusoidal", "relational"}

\* Arguments the constructor is called with
TransformerArgs ==
    [embedding_key_x : {"nn_embedding", "unknown"},
     embedding_key_t : {"no_embedding", "unknown"},
     positional_encoding_key : {"sinusoidal", "unknown"},
     d_model : {3, 4, 6},
     nheads : {2, 3},
     max_len : {2, 3},
     start_from_copy_prev : BOOLEAN,
     dg_key : {"cosine-regression", "gaussian"},
     dropout : Dropouts]

\* Variant: only d_model >= nheads is required
DivisibleRounded(d_model, nheads) == d_model \div nheads >= 1

\* d_model // nheads == float(d_model) / nheads
Divisible(d_model, nheads) == (d_model \div nheads) * nheads = d_model

\* The checks of AbstractTransformerModel.__init__, in their order
\* (embedding_size_x is d_model in the child class), and the head that
\* instantiate_direction_getter(d_model) builds from dg_key and dg_args
TransformerConstructOutcome(args) ==
    IF ~(args.d_model > 3) THEN Raised("AssertionError")
    ELSE IF args.embedding_key_x \notin EmbeddingKeys
    THEN Raised("ValueError")
    ELSE IF args.embedding_key_t \notin EmbeddingKeys
    THEN Raised("ValueError")
    ELSE IF args.positional_encoding_key \notin PositionalEncodingKeys
    THEN Raised("ValueError")
    ELSE IF ~Divisible(args.d_model, args.nheads)
    THEN Raised("AssertionError")
    ELSE LET dg == ConstructFrom(keys_to_direction_getters[args.dg_key],
                       [input_size |-> args.d_model,
                        dropout |-> args.dropout])
         IN  IF dg.kind # "returned" THEN Raised(dg.kind)
             ELSE Returned(
                    [embedding_key_x |-> args.embedding_key_x,
                     embedding_key_t |-> args.embedding_key_t,
                     positional_encoding_key |-> args.positional_encoding_key,
                     d_model |-> args.d_model,
                     nheads |-> args.nheads,
                     max_len |-> args.max_len,
                     start_from_copy_prev |-> args.start_from_copy_prev,
                     dg_key |-> args.dg_key,
                     direction_getter |-> dg.value,
                     context |-> None])

NoModel == [max_len |-> 0]

TransIdle ==
    /\ tmodel = NoModel
    /\ tcall = NoCall

TransCallerReady == tcall.method \in {"__init__", "caller"}

\* OriginalTransformerModel(...): the constructor is called
TransformerConstruct ==
    /\ tmodel = NoModel
    /\ tcall = NoCall
    /\ \E args \in TransformerArgs :
          LET out == TransformerConstructOutcome(args)
          IN  /\ tcall' = [method |-> "__init__", tick |-> 1 - tcall.tick,
                           args |-> args, outcome |-> out.kind]
              /\ tmodel' = IF out.kind = "returned" THEN out.value
                           ELSE NoModel
    /\ UNCHANGED <<baseVars, epochVars, aeVars, hookVars>>


\* set_context: an unknown context fails the assertion
SetContext ==
    /\ tmodel # NoModel
    /\ TransCallerReady
    /\ \E ctx \in {"training", "validation", "tracking", "visu",
                    "unknown"} :
          LET ok == ctx \in {"training", "validation", "tracking", "visu"}
          IN  /\ tcall' = [method |-> "set_context",
                           tick |-> 1 - tcall.tick,
                           outcome |-> IF ok THEN "returned"
                                       ELSE "AssertionError"]
              /\ tmodel' = IF ok THEN [tmodel EXCEPT !.context = ctx]
                           ELSE tmodel
    /\ UNCHANGED <<baseVars, epochVars, aeVars, hookVars>>

\* Bound: the longest streamline given to forward
MaxPoints == 4

\* Batches given to forward: the number of points of each streamline
LengthBatches == UNION { [1..n -> 1..MaxPoints] : n \in 1..MaxLines }

\* float('-inf') of generate_square_subsequent_mask
NegInf == -1

\* Transformer.generate_square_subsequent_mask(sz): -inf above the diagonal
SquareSubsequentMask(sz) ==
    [r \in 1..sz |-> [c \in 1..sz |-> IF c > r THEN NegInf ELSE 0]]

\* _generate_future_mask: mask < 0
GenerateFutureMask(sz) ==
    [r \in 1..sz |-> [c \in 1..sz |-> SquareSubsequentMask(sz)[r][c] < 0]]

\* Variant: the padding starts one position too late
GeneratePaddingMaskLate(unpadded_lengths, batch_max_len) ==
    [i \in 1..Len(unpadded_lengths) |->
        [p \in 1..batch_max_len |-> p - 1 > unpadded_lengths[i]]]

\* _generate_padding_mask: mask_padding[i, unpadded_lengths[i]:] = True
\* (position p of the model is index p - 1 of the tensor)
GeneratePaddingMask(unpadded_lengths, batch_max_len) ==
    [i \in 1..Len(unpadded_lengths) |->
        [p \in 1..batch_max_len |-> p - 1 >= unpadded_lengths[i]]]

NonePadding == [is_none |-> TRUE, rows |-> <<>>]
NoMasks == [mask_future |-> <<>>, mask_padding |-> NonePadding]

\* _prepare_masks
PrepareMasks(unpadded_lengths, use_padding, batch_max_len) ==
    [mask_future |-> GenerateFutureMask(batch_max_len),
     mask_padding |->
        IF use_padding
        THEN [is_none |-> FALSE,
              rows |-> GeneratePaddingMask(unpadded_lengths, batch_max_len)]
        ELSE NonePadding]

\* np.max(unpad_lengths)
MaxOf(lengths) ==
    CHOOSE m \in { lengths[i] : i \in 1..Len(lengths) } :
        \A i \in 1..Len(lengths) : lengths[i] <= m

\* Variant: only the first streamline is compared with max_len
FirstExceedsMaxLen(unpad_lengths, max_len) == unpad_lengths[1] > max_len

\* np.any(unpad_lengths > self.max_len)
ExceedsMaxLen(unpad_lengths, max_len) ==
    \E i \in 1..Len(unpad_lengths) : unpad_lengths[i] > max_len

\* copy_prev_dir raises NotImplementedError for every head but the
\* regression and sphere-classification heads
CopyPrevDirRaises(dg_key) ==
    dg_key \notin RegressionKeys \cup {"sphere-classification"}

ForwardFailed(e, stages) ==
    [kind |-> e, stages |-> stages, masks |-> NoMasks, padded_to |-> 0,
     outputs |-> <<>>]

\* forward: the checks, the masks, then the stages that compute; outputs
\* holds the number of output rows of each streamline
TransformerForwardOutcome(m, lengths, aligned) ==
    IF m.context = None THEN ForwardFailed("ValueError", <<>>)
    ELSE IF ~aligned THEN ForwardFailed("AssertionError", <<>>)
    ELSE IF ExceedsMaxLen(lengths, m.max_len)
    THEN ForwardFailed("ValueError", <<>>)
    ELSE LET use_padding ==
                 ~(\A i \in 1..Len(lengths) : lengths[i] = lengths[1])
             batch_max_len == MaxOf(lengths)
             masks == PrepareMasks(lengths, use_padding, batch_max_len)
             dg == ForwardOutcome(m.direction_getter, lengths)
         IN  IF m.start_from_copy_prev /\ CopyPrevDirRaises(m.dg_key)
             THEN [ForwardFailed("NotImplementedError",
                                 <<"masks", "targets">>)
                      EXCEPT !.masks = masks]
             ELSE IF dg.kind # "returned"
             THEN [ForwardFailed(dg.kind,
                      <<"masks", "targets", "embedding", "transformer">>)
                      EXCEPT !.masks = masks, !.padded_to = batch_max_len]
             ELSE [kind |-> "returned",
                   stages |-> <<"masks", "targets", "embedding",
                                "transformer", "direction_getter">>,
                   masks |-> masks,
                   padded_to |-> batch_max_len,
                   outputs |-> IF m.context = "tracking"
                               THEN [i \in 1..Len(lengths) |-> 1]
                               ELSE lengths]

\* forward is called on a batch
TransformerForward ==
    /\ tmodel # NoModel
    /\ TransCallerReady
    /\ \E lengths \in LengthBatches, aligned \in BOOLEAN :
          tcall' = [method |-> "forward", tick |-> 1 - tcall.tick,
                    lengths |-> lengths, aligned |-> aligned,
                    outcome |->
                        TransformerForwardOutcome(tmodel, lengths, aligned)]
    /\ UNCHANGED <<tmodel, baseVars, epochVars, aeVars, hookVars>>

\* The call returns, or its error reaches the caller
TransReturn ==
    /\ tmodel # NoModel
    /\ ~TransCallerReady
    /\ tcall' = [method |-> "caller", tick |-> tcall.tick]
    /\ UNCHANGED <<tmodel, baseVars, epochVars, aeVars, hookVars>>

NextTrans ==
    \/ TransformerConstruct
    \/ SetContext
    \/ TransformerForward
    \/ TransReturn

InitTrans == TransIdle /\ BaseOff /\ EpochOff /\ AEOff /\ HookOff

SpecTrans == InitTrans /\ [][NextTrans]_vars

\* C21: a constructor call with a head dropout outside [0, 1], a d_model
\* that nheads does not divide or an unrecognized embedding or positional
\* encoding key raises an error and leaves no instance; an instance that is
\* built holds the values it was given; a dropout of None or 0 gives a head
\* that applies no dropout
C21_InvalidArgumentsRaise ==
    tcall.method = "__init__"
        => LET a == tcall.args
               invalid ==
                   \/ (a.dropout # NoDropout
                         /\ (a.dropout[1] < 0 \/ a.dropout[1] > 10))
                   \/ a.d_model % a.nheads # 0
                   \/ a.embedding_key_x \notin EmbeddingKeys
                   \/ a.embedding_key_t \notin EmbeddingKeys
                   \/ a.positional_encoding_key \notin PositionalEncodingKeys
           IN  /\ invalid => (tcall.outcome # "returned" /\ tmodel = NoModel)
               /\ tcall.outcome # "returned" => tmodel = NoModel
               /\ tcall.outcome = "returned"
                    => /\ tmodel.d_model = a.d_model
                       /\ tmodel.nheads = a.nheads
                       /\ tmodel.embedding_key_x = a.embedding_key_x
                       /\ tmodel.embedding_key_t = a.embedding_key_t
                       /\ tmodel.positional_encoding_key
                            = a.positional_encoding_key
                       /\ tmodel.direction_getter.dropout = a.dropout
                       /\ tmodel.direction_getter.input_size = a.d_model
                       /\ (a.dropout \in {NoDropout, <<0>>}
                            => ~tmodel.direction_getter.applies_dropout)

C21_Witness ==
    /\ tcall.method = "__init__"
    /\ tcall.args.d_model = 4
    /\ tcall.args.nheads = 3
    /\ tcall.args.embedding_key_x = "nn_embedding"
    /\ tcall.args.embedding_key_t = "no_embedding"
    /\ tcall.args.positional_encoding_key = "sinusoidal"
    /\ tcall.args.dropout = <<5>>
    /\ tcall.outcome = "AssertionError"
    /\ tmodel = NoModel

\* C22: a forward call on a batch with a streamline longer than max_len
\* ends in an error (ValueError when the context is set and the inputs match
\* the streamlines) before any stage has computed and with no output; a
\* forward call with no context set ends in ValueError; a call that returns
\* had no streamline longer than max_len, padded every streamline to at
\* least its length and, outside tracking, returns as many rows per
\* streamline as it was given
C22_TooLongRaises ==
    tcall.method = "forward"
        => LET out == tcall.outcome
               too_long == \E i \in 1..Len(tcall.lengths) :
                               tcall.lengths[i] > tmodel.max_len
           IN  /\ too_long => /\ out.kind # "returned"
                              /\ out.stages = <<>>
                              /\ out.outputs = <<>>
               /\ (too_long /\ tmodel.context # None /\ tcall.aligned)
                      => out.kind = "ValueError"
               /\ tmodel.context = None
                      => (out.kind = "ValueError" /\ out.stages = <<>>)
               /\ out.kind = "returned"
                      => /\ ~too_long
                         /\ \A i \in 1..Len(tcall.lengths) :
                                out.padded_to >= tcall.lengths[i]
                         /\ (tmodel.context # "tracking"
                                => out.outputs = tcall.lengths)

C22_Witness ==
    /\ tcall.method = "forward"
    /\ tmodel.context = "training"
    /\ tmodel.max_len = 3
    /\ tcall.aligned
    /\ tcall.lengths = <<2, 4>>
    /\ tcall.outcome.kind = "ValueError"
    /\ tcall.outcome.stages = <<>>

\* C25: when forward prepares the masks for lengths L_i of maximum M, the
\* future mask has M rows of M entries and entry (r, c) is True exactly when
\* c > r; the padding mask is None exactly when all the lengths are equal,
\* and otherwise has one row of M entries per streamline, entry (i, p)
\* being True exactly when the index p - 1 is >= L_i
C25_Masks ==
    (tcall.method = "forward" /\ tcall.outcome.stages # <<>>)
        => LET L == tcall.lengths
               M == MaxOf(L)
               masks == tcall.outcome.masks
           IN  /\ Len(masks.mask_future) = M
               /\ \A r \in 1..M :
                     /\ Len(masks.mask_future[r]) = M
                     /\ \A c \in 1..M : masks.mask_future[r][c] <=> c > r
               /\ masks.mask_padding.is_none
                     <=> \A i, j \in 1..Len(L) : L[i] = L[j]
               /\ ~masks.mask_padding.is_none
                     => /\ Len(masks.mask_padding.rows) = Len(L)
                        /\ \A i \in 1..Len(L) :
                              /\ Len(masks.mask_padding.rows[i]) = M
                              /\ \A p \in 1..M :
                                    masks.mask_padding.rows[i][p]
                                        <=> p - 1 >= L[i]

C25_Witness ==
    /\ tcall.method = "forward"
    /\ tcall.lengths = <<1, 3>>
    /\ tcall.outcome.kind = "returned"
    /\ ~tcall.outcome.masks.mask_padding.is_none
    /\ tcall.outcome.masks.mask_padding.rows[1] = <<FALSE, TRUE, TRUE>>

----------------------------------------------------------------------------
(* validate_one_epoch over the epochs, the checkpoint and the resume       *)
(* (trainers_for_generation.py lines 70-122).  Values are fractions.       *)

\* Bound: the number of epochs of a run
MaxEpochs == 3

\* The placeholder history of the IS monitor on resume: [0] * 150
PlaceholderEpochs == 150

Frequencies == {1, 2}

\* What generate_from_one_batch returns for the batches of a generation
\* phase: (mean_loss, n, percent_inv)
PhaseBatches ==
    { [mean_loss |-> <<0, 1>>, n |-> 1, percent_inv |-> <<0, 1>>],
      [mean_loss |-> <<30, 1>>, n |-> 2, percent_inv |-> <<50, 1>>] }

PhaseResults == UNION { [1..k -> PhaseBatches] : k \in 1..MaxBatches }

RECURSIVE WeightedSum(_, _, _)
\* sum of weights[i] * values[i] from index i on; the weight 0 stands for
\* None (update called without weight) and counts as 1
WeightedSum(values, weights, i) ==
    IF i > Len(values) THEN <<0, 1>>
    ELSE FAdd(FMul(<<IF weights[i] = 0 THEN 1 ELSE weights[i], 1>>,
                   values[i]),
              WeightedSum(values, weights, i + 1))

\* BatchHistoryMonitor.start_new_epoch
MonitorStartNewEpoch(m) ==
    [m EXCEPT !.current_epoch = @ + 1,
              !.current_batch_values = <<>>,
              !.current_batch_weights = <<>>]

\* BatchHistoryMonitor.end_epoch: the weighted mean of the epoch's values
MonitorEndEpoch(m) ==
    [m EXCEPT !.average_per_epoch =
        Append(@, FDiv(WeightedSum(m.current_batch_values,
                                   m.current_batch_weights, 1),
                       WeightedSum([i \in 1..Len(m.current_batch_values)
                                       |-> One],
                                   m.current_batch_weights, 1)))]

RECURSIVE UpdateAll(_, _, _, _)
\* The updates of validate_using_tracking on one monitor, batch after batch
UpdateAll(m, values, weights, i) ==
    IF i > Len(values) THEN m
    ELSE UpdateAll(MonitorUpdate(m, values[i], weights[i]),
                   values, weights, i + 1)

\* Variant: an epoch without generation phase and without previous average
\* records 0
CarriedOrZero(m) ==
    IF m.average_per_epoch = <<>>
    THEN Returned(MonitorUpdate(m, <<0, 1>>, 0))
    ELSE Returned(MonitorUpdate(m, Last(m.average_per_epoch), 0))

\* monitor.update(monitor.average_per_epoch[-1]): IndexError on an empty
\* list; the weight is left to its default
Carried(m) ==
    IF m.average_per_epoch = <<>> THEN Raised("IndexError")
    ELSE Returned(MonitorUpdate(m, Last(m.average_per_epoch), 0))

\* A trainer after construction
NewTrainer(frequency) ==
    [tracking_phase_frequency |-> frequency,
     tracking_valid_loss_monitor |-> NewMonitor,
     tracking_valid_IS_monitor |-> NewMonitor,
     epoch |-> 0,
     calls |-> 0,
     phases |-> <<>>,
     resumed |-> FALSE,
     status |-> "ok"]

NoCheckpoint == [epoch |-> -1]

EpochsIdle ==
    /\ trainer \in { NewTrainer(f) : f \in Frequencies }
    /\ checkpoint = NoCheckpoint

\* validate_one_epoch(epoch), with the generation phase it may run; phases
\* records whether the generation phase ran
ValidateOneEpoch ==
    /\ trainer.status = "ok"
    /\ trainer.epoch < MaxEpochs
    /\ \E results \in PhaseResults :
        LET loss0 == MonitorStartNewEpoch(trainer.tracking_valid_loss_monitor)
            is0 == MonitorStartNewEpoch(trainer.tracking_valid_IS_monitor)
            generation ==
                (trainer.epoch + 1) % trainer.tracking_phase_frequency = 0
            n == [i \in 1..Len(results) |-> results[i].n]
            loss1 ==
                IF generation
                THEN Returned(UpdateAll(loss0,
                        [i \in 1..Len(results) |-> results[i].mean_loss],
                        n, 1))
                ELSE Carried(loss0)
            is1 ==
                IF generation
                THEN Returned(UpdateAll(is0,
                        [i \in 1..Len(results) |-> results[i].percent_inv],
                        n, 1))
                ELSE Carried(is0)
        IN  \* without generation phase the results are not used
            /\ generation \/ results = <<CHOOSE b \in PhaseBatches : TRUE>>
            /\ trainer' =
                 IF loss1.kind # "returned"
                 THEN [trainer EXCEPT
                          !.tracking_valid_loss_monitor = loss0,
                          !.tracking_valid_IS_monitor = is0,
                          !.calls = @ + 1,
                          !.status = loss1.kind]
                 ELSE IF is1.kind # "returned"
                 THEN [trainer EXCEPT
                          !.tracking_valid_loss_monitor = loss1.value,
                          !.tracking_valid_IS_monitor = is0,
                          !.calls = @ + 1,
                          !.status = is1.kind]
                 ELSE [trainer EXCEPT
                          !.tracking_valid_loss_monitor =
                              MonitorEndEpoch(loss1.value),
                          !.tracking_valid_IS_monitor =
                              MonitorEndEpoch(is1.value),
                          !.phases = Append(@, generation),
                          !.calls = @ + 1,
                          !.epoch = @ + 1]
    /\ UNCHANGED <<checkpoint, baseVars, transVars, aeVars, hookVars>>

\* _prepare_checkpoint_info: the states of both monitors are written
PrepareCheckpointInfo ==
    /\ trainer.status = "ok"
    /\ trainer.epoch >= 1
    /\ checkpoint' =
          [epoch |-> trainer.epoch,
           tracking_phase_frequency |-> trainer.tracking_phase_frequency,
           tracking_valid_loss_monitor_state |->
               trainer.tracking_valid_loss_monitor,
           tracking_valid_IS_monitor_state |->
               trainer.tracking_valid_IS_monitor]
    /\ UNCHANGED <<trainer, baseVars, transVars, aeVars, hookVars>>

\* Variant: the IS monitor is set from the saved state
ISMonitorFromState(current_states) ==
    current_states.tracking_valid_IS_monitor_state

\* The IS monitor after _update_states_from_checkpoint: current_epoch = 149
\* and average_per_epoch = [0] * 150, whatever was saved
ISMonitorOnResume(current_states) ==
    [NewMonitor EXCEPT
        !.current_epoch = PlaceholderEpochs - 1,
        !.average_per_epoch = [i \in 1..PlaceholderEpochs |-> <<0, 1>>]]

\* A trainer is built from the checkpoint: _update_states_from_checkpoint
UpdateStatesFromCheckpoint ==
    /\ checkpoint # NoCheckpoint
    /\ ~trainer.resumed
    /\ trainer' =
          [NewTrainer(checkpoint.tracking_phase_frequency) EXCEPT
              !.tracking_valid_loss_monitor =
                  checkpoint.tracking_valid_loss_monitor_state,
              !.tracking_valid_IS_monitor = ISMonitorOnResume(checkpoint),
              !.epoch = checkpoint.epoch,
              !.resumed = TRUE]
    /\ UNCHANGED <<checkpoint, baseVars, transVars, aeVars, hookVars>>

NextEpochs ==
    \/ ValidateOneEpoch
    \/ PrepareCheckpointInfo
    \/ UpdateStatesFromCheckpoint

InitEpochs == EpochsIdle /\ BaseOff /\ TransOff /\ AEOff /\ HookOff

SpecEpochs == InitEpochs /\ [][NextEpochs]_vars

\* C23: right after a resume, the tracking loss monitor and the IS monitor
\* of the trainer are the states the checkpoint holds
C23_MonitorsRestored ==
    (trainer.resumed /\ trainer.calls = 0)
        => /\ trainer.tracking_valid_loss_monitor
                = checkpoint.tracking_valid_loss_monitor_state
           /\ trainer.tracking_valid_IS_monitor
                = checkpoint.tracking_valid_IS_monitor_state

\* C24: on a fresh trainer, after validate_one_epoch has run n times both
\* monitors hold n per-epoch averages, the generation phase ran exactly on
\* the epochs e (counted from 0) with (e + 1) a multiple of the frequency,
\* and the value of any other epoch is the average of the epoch before
C24_OneAveragePerEpoch ==
    ~trainer.resumed
        => LET loss == trainer.tracking_valid_loss_monitor.average_per_epoch
               is == trainer.tracking_valid_IS_monitor.average_per_epoch
           IN  /\ Len(loss) = trainer.calls
               /\ Len(is) = trainer.calls
               /\ Len(trainer.phases) = trainer.calls
               /\ \A e \in 1..trainer.calls :
                     /\ trainer.phases[e]
                          <=> e % trainer.tracking_phase_frequency = 0
                     /\ (~trainer.phases[e] /\ e > 1)
                          => (loss[e] = loss[e - 1] /\ is[e] = is[e - 1])

----------------------------------------------------------------------------
(* ModelConvNextAE (ae_next_models.py): parameters, encode and decode.     *)

\* fc1 = Linear(8192, latent_space_dims), fc2 = Linear(latent_space_dims,
\* 8192); the last convolution of the encoder has 1024 channels
FcSize == 8192
EncoderChannels == 1024

\* p['latent_space_dims'] = 32 in _load_params
LoadedLatentSpaceDims == 32

KernelSizes == {3, 4}
LatentSpaceDims == {16, 32}

\* Number of points of the streamlines of a batch given to encode, and
\* number of latent vectors given to decode
StreamlineLengths == {16, 256, 288, 300}
LatentBatchSizes == {1, 7}

\* Output length of a Conv1d; 0 when the kernel is larger than the input
Conv1dLength(len, kernel, stride, padding) ==
    IF len <= 0 \/ len + 2 * padding < kernel THEN 0
    ELSE (len + 2 * padding - kernel) \div stride + 1

RECURSIVE Downsampled(_, _, _)
\* n convolutions of stride 2 without padding; the residual blocks between
\* them keep the length
Downsampled(len, kernel, n) ==
    IF n = 0 THEN len
    ELSE Downsampled(Conv1dLength(len, kernel, 2, 0), kernel, n - 1)

\* Length of self.encoder(x): the first convolution (kernel_size + 1,
\* stride 1, padding 1), then the five strided ones
EncoderLength(len, kernel_size) ==
    Downsampled(Conv1dLength(len, kernel_size + 1, 1, 1), kernel_size, 5)

NoSize == <<0, 0>>

\* The instance the constructor builds: encoder_out_size is not set
NewAE(kernel_size, latent_space_dims, experiment_name) ==
    [kernel_size |-> kernel_size,
     latent_space_dims |-> latent_space_dims,
     experiment_name |-> experiment_name,
     has_encoder_out_size |-> FALSE,
     encoder_out_size |-> NoSize,
     last_encoded |-> NoSize,
     model_dir |-> [saved |-> FALSE]]

\* params_for_checkpoint
ParamsForCheckpoint(m) ==
    [kernel_size |-> m.kernel_size,
     latent_space_dims |-> m.latent_space_dims,
     experiment_name |-> m.experiment_name]

\* Variant: the parameters are returned as they were read
LoadParamsAsRead(p) == p

\* _load_params: the parameters read from the directory, then
\* p['latent_space_dims'] = 32
LoadParams(p) == [p EXCEPT !.latent_space_dims = LoadedLatentSpaceDims]

\* Variant: encode records the size after fc1 has run
EncodeRecordsAfterFc(m, len) ==
    LET l == EncoderLength(len, m.kernel_size)
    IN  IF l = 0 THEN [kind |-> "RuntimeError", model |-> m]
        ELSE IF EncoderChannels * l # FcSize
        THEN [kind |-> "RuntimeError",
              model |-> [m EXCEPT !.last_encoded = <<EncoderChannels, l>>]]
        ELSE [kind |-> "returned",
              model |-> [m EXCEPT !.has_encoder_out_size = TRUE,
                                  !.encoder_out_size = <<EncoderChannels, l>>,
                                  !.last_encoded = <<EncoderChannels, l>>]]

\* encode on streamlines of len points: the encoder fails on an input
\* shorter than a kernel; then encoder_out_size is recorded; then fc1 fails
\* unless the flattened size is 8192.  last_encoded is the shape of the
\* encoder output of the most recent call that had one
EncodeOutcome(m, len) ==
    LET l == EncoderLength(len, m.kernel_size)
        recorded == [m EXCEPT !.has_encoder_out_size = TRUE,
                              !.encoder_out_size = <<EncoderChannels, l>>,
                              !.last_encoded = <<EncoderChannels, l>>]
    IN  IF l = 0 THEN [kind |-> "RuntimeError", model |-> m]
        ELSE IF EncoderChannels * l # FcSize
        THEN [kind |-> "RuntimeError", model |-> recorded]
        ELSE [kind |-> "returned", model |-> recorded]

\* decode on n latent vectors: fc2, then fc.view(-1, encoder_out_size[0],
\* encoder_out_size[1]); reading an attribute that was never set is an
\* AttributeError, a view that does not fit is a RuntimeError
DecodeOutcome(m, n) ==
    IF ~m.has_encoder_out_size
    THEN [kind |-> "AttributeError", view |-> NoSize, rows |-> 0]
    ELSE LET size == m.encoder_out_size[1] * m.encoder_out_size[2]
         IN  IF (n * FcSize) % size # 0
             THEN [kind |-> "RuntimeError", view |-> m.encoder_out_size,
                   rows |-> 0]
             ELSE [kind |-> "returned", view |-> m.encoder_out_size,
                   rows |-> (n * FcSize) \div size]

NoAE == [kernel_size |-> 0]
NoAECall == [method |-> None, tick |-> 0]

AEIdle ==
    /\ ae = NoAE
    /\ ae_call = NoAECall

AECallerReady == ae_call.method \in {"__init__", "caller"}

\* ModelConvNextAE(kernel_size, latent_space_dims, experiment_name)
AEConstruct ==
    /\ ae = NoAE
    /\ \E k \in KernelSizes, d \in LatentSpaceDims :
          ae' = NewAE(k, d, "experiment")
    /\ ae_call' = [method |-> "__init__", tick |-> 1 - ae_call.tick]
    /\ UNCHANGED <<baseVars, transVars, epochVars, hookVars>>

\* The model is saved: its directory holds its params_for_checkpoint
AESave ==
    /\ ae # NoAE
    /\ AECallerReady
    /\ ae' = [ae EXCEPT !.model_dir =
                 [saved |-> TRUE, parameters |-> ParamsForCheckpoint(ae)]]
    /\ ae_call' = [method |-> "save", tick |-> 1 - ae_call.tick]
    /\ UNCHANGED <<baseVars, transVars, epochVars, hookVars>>

\* ModelConvNextAE._load_params(model_dir)
AELoadParams ==
    /\ ae # NoAE
    /\ AECallerReady
    /\ ae.model_dir.saved
    /\ ae_call' = [method |-> "_load_params", tick |-> 1 - ae_call.tick,
                   outcome |-> LoadParams(ae.model_dir.parameters)]
    /\ UNCHANGED <<ae, baseVars, transVars, epochVars, hookVars>>

\* encode(x)
AEEncode ==
    /\ ae # NoAE
    /\ AECallerReady
    /\ \E len \in StreamlineLengths :
          LET out == EncodeOutcome(ae, len)
          IN  /\ ae' = out.model
              /\ ae_call' = [method |-> "encode", tick |-> 1 - ae_call.tick,
                             len |-> len, outcome |-> out.kind]
    /\ UNCHANGED <<baseVars, transVars, epochVars, hookVars>>

\* decode(z)
AEDecode ==
    /\ ae # NoAE
    /\ AECallerReady
    /\ \E n \in LatentBatchSizes :
          ae_call' = [method |-> "decode", tick |-> 1 - ae_call.tick,
                      n |-> n, outcome |-> DecodeOutcome(ae, n)]
    /\ UNCHANGED <<ae, baseVars, transVars, epochVars, hookVars>>

\* The call returns, or its error reaches the caller
AEReturn ==
    /\ ae # NoAE
    /\ ~AECallerReady
    /\ ae_call' = [method |-> "caller", tick |-> ae_call.tick]
    /\ UNCHANGED <<ae, baseVars, transVars, epochVars, hookVars>>

NextAE ==
    \/ AEConstruct
    \/ AESave
    \/ AELoadParams
    \/ AEEncode
    \/ AEDecode
    \/ AEReturn

InitAE == AEIdle /\ BaseOff /\ TransOff /\ EpochOff /\ HookOff

SpecAE == InitAE /\ [][NextAE]_vars

\* C26: the parameters _load_params returns for the directory a model was
\* saved in equal the params_for_checkpoint of the model
C26_LoadedParamsEqual ==
    ae_call.method = "_load_params"
        => ae_call.outcome = ParamsForCheckpoint(ae)

\* C29: decode on an instance on which no encode call has produced an
\* encoder output fails; otherwise the view decode takes is the shape of the
\* encoder output of the most recent encode call that had one
C29_DecodeUsesLastEncode ==
    ae_call.method = "decode"
        => /\ ae.last_encoded = NoSize
                => ae_call.outcome.kind = "AttributeError"
           /\ ae.last_encoded # NoSize
                => /\ ae_call.outcome.kind # "AttributeError"
                   /\ ae_call.outcome.view = ae.last_encoded

C29_Witness ==
    /\ ae_call.method = "decode"
    /\ ae.last_encoded = <<EncoderChannels, 7>>
    /\ ae_call.n = 7
    /\ ae_call.outcome.kind = "returned"
    /\ ae_call.outcome.view = <<EncoderChannels, 7>>

----------------------------------------------------------------------------
(* The latent-space hook of ae_train_model.py (visualize_latent_space),    *)
(* called with the encoding of each batch the model encodes.               *)

\* Bound: training batches of an epoch
MaxTrainBatches == 2

VizFrequencies == {1, 2}

\* BundlesLatentSpaceVisualizer after construction, with the current_epoch
\* of the closure
NewVisualizer == [current_epoch |-> 0, data |-> <<>>, plots |-> <<>>]

\* Variant: the hook does not look at the context
HookAnyContext(viz, trainer_epoch, model_context, freq, encoding) ==
    IF viz.current_epoch = trainer_epoch
    THEN [viz EXCEPT !.data = Append(@, encoding)]
    ELSE IF trainer_epoch % freq = 0
    THEN [current_epoch |-> trainer_epoch,
          data |-> <<encoding>>,
          plots |-> Append(viz.plots, [title |-> trainer_epoch,
                                       data |-> viz.data])]
    ELSE viz

\* visualize_latent_space(encoding): nothing outside training; the encoding
\* is added while the epoch has not changed; on the first encoding of a
\* changed epoch that is a multiple of the frequency the accumulated data is
\* plotted and reset and the encoding added; otherwise nothing
VisualizeLatentSpace(viz, trainer_epoch, model_context, freq, encoding) ==
    IF model_context # "training" THEN viz
    ELSE IF viz.current_epoch = trainer_epoch
    THEN [viz EXCEPT !.data = Append(@, encoding)]
    ELSE IF trainer_epoch % freq = 0
    THEN [current_epoch |-> trainer_epoch,
          data |-> <<encoding>>,
          plots |-> Append(viz.plots, [title |-> trainer_epoch,
                                       data |-> viz.data])]
    ELSE viz

HookIdle ==
    /\ ls_viz = NewVisualizer
    /\ run \in { [viz_latent_space_freq |-> f, current_epoch |-> 0,
                  context |-> "training", batch |-> 0, received |-> <<>>]
                 : f \in VizFrequencies }

\* The model encodes a batch in the current context and calls the hook
EncodeBatch ==
    /\ run.batch < (IF run.context = "training" THEN MaxTrainBatches ELSE 1)
    /\ LET encoding == [epoch |-> run.current_epoch, batch |-> run.batch,
                        context |-> run.context]
       IN  /\ ls_viz' = VisualizeLatentSpace(ls_viz, run.current_epoch,
                             run.context, run.viz_latent_space_freq, encoding)
           /\ run' = [run EXCEPT !.batch = @ + 1,
                                 !.received = Append(@, encoding)]
    /\ UNCHANGED <<baseVars, transVars, epochVars, aeVars>>

\* The training batches of the epoch are over: validation
ValidationPhase ==
    /\ run.context = "training"
    /\ run.batch >= 1
    /\ run' = [run EXCEPT !.context = "validation", !.batch = 0]
    /\ UNCHANGED <<ls_viz, baseVars, transVars, epochVars, aeVars>>

\* The next epoch starts, after the validation or with no validation
NextTrainingEpoch ==
    /\ run.context = "validation" \/ run.batch >= 1
    /\ run.current_epoch < MaxEpochs
    /\ run' = [run EXCEPT !.current_epoch = @ + 1,
                          !.context = "training", !.batch = 0]
    /\ UNCHANGED <<ls_viz, baseVars, transVars, epochVars, aeVars>>

NextHook ==
    \/ EncodeBatch
    \/ ValidationPhase
    \/ NextTrainingEpoch

InitHook == HookIdle /\ BaseOff /\ TransOff /\ EpochOff /\ AEOff

SpecHook == InitHook /\ [][NextHook]_vars

\* The encodings of a sequence, as a set
Encodings(s) == { s[i] : i \in 1..Len(s) }

\* C30: only encodings received in the training context are accumulated or
\* plotted; every plot holds exactly the training encodings of one epoch,
\* each once; no encoding is in two plots; the accumulated data holds only
\* encodings of the epoch the hook is at, so it was reset at the last plot;
\* and no encoding of the current (last) epoch is in a plot
C30_PlotsOfOneEpoch ==
    LET training == { e \in Encodings(run.received) :
                          e.context = "training" }
    IN  /\ Encodings(ls_viz.data) \subseteq training
        /\ \A i \in 1..Len(ls_viz.data) :
              ls_viz.data[i].epoch = ls_viz.current_epoch
        /\ \A p \in 1..Len(ls_viz.plots) :
              LET plot == ls_viz.plots[p].data
              IN  /\ \E ep \in 0..MaxEpochs :
                        Encodings(plot) = { e \in training : e.epoch = ep }
                  /\ Cardinality(Encodings(plot)) = Len(plot)
                  /\ Len(plot) >= 1
                  /\ \A e \in Encodings(plot) : e.epoch < run.current_epoch
                  /\ \A q \in 1..Len(ls_viz.plots) :
                        q # p => Encodings(plot)
                                   \cap Encodings(ls_viz.plots[q].data) = {}

C30_Witness ==
    /\ run.viz_latent_space_freq = 2
    /\ run.current_epoch = 2
    /\ Len(ls_viz.plots) = 1
    /\ ls_viz.plots[1].title = 2
    /\ Len(ls_viz.plots[1].data) = 2
    /\ ls_viz.plots[1].data[1].epoch = 0
    /\ \E i \in 1..Len(run.received) : run.received[i].context = "validation"

----------------------------------------------------------------------------
(* The lines the driver's propagation returns, by their stop criterion. *)

\* C27, as stated: in the propagation the driver runs (theta = 2*pi) no line
\* is stopped by the angle, every returned line stopped by leaving the mask
\* or by reaching max_nbr_pts, and with no tracking mask every returned line
\* has exactly max_nbr_pts points.
C27_ExactlyMaxNbrPts ==
    pc \in {"returned", "scored"} =>
        \A r \in 1..Len(final_lines) :
            /\ stop_reason[r] \in {"mask", "max_nbr_pts"}
            /\ tracking_mask = None =>
                  Len(final_lines[r]) = MaxLengthMm \div step_size

\* The first sentence alone: no line is stopped by the angle
C27_NoAngleStop ==
    \A r \in 1..Len(stop_reason) : stop_reason[r] # "angle"

----------------------------------------------------------------------------
(* A tracking-validation phase with the head of the model: the loop of     *)
(* validate_using_tracking, generate_from_one_batch on each batch, and      *)
(* get_dirs_at_last_pos calling the model and its head at each step.       *)

PhaseClasses ==
    {"CosineRegressionDirectionGetter", "SingleGaussianDirectionGetter",
     "GaussianMixtureDirectionGetter", "FisherVonMisesDirectionGetter"}

\* The batches of lines the validation loader yields
PhaseLoaders == UNION { [1..k -> Batches] : k \in 0..MaxBatches }

\* tracking_phase_nb_steps_init: shorter and longer than max_nbr_pts
PhaseNbStepsInit == {1, 3}

\* get_tracking_direction_det of the head, by family: how the call ends
DetOutcomeKind(h) ==
    CASE h.key = "gaussian" -> SingleGaussianDetOutcome(<<>>).kind
      [] h.key = "gaussian-mixture" -> GaussianMixtureDetOutcome(<<>>).kind
      [] h.key = "fisher-von-mises" -> FisherVonMisesDetOutcome(<<>>).kind
      [] OTHER -> "returned"

\* Variant: the forward of the head always returns
GetDirsForwardReturns(h, inputs) ==
    [method |-> "get_tracking_direction_det", kind |-> DetOutcomeKind(h)]

\* get_dirs_at_last_pos: the model is called on the inputs, and its forward
\* calls the forward of its head; then get_tracking_directions with
\* algo='det' calls get_tracking_direction_det of the head
GetDirsAtLastPos(h, inputs) ==
    IF ForwardOutcome(h, inputs).kind # "returned"
    THEN [method |-> "forward", kind |-> ForwardOutcome(h, inputs).kind]
    ELSE [method |-> "get_tracking_direction_det",
          kind |-> DetOutcomeKind(h)]

PhaseIdle ==
    /\ vpc = "idle"
    /\ valid_dataloader \in PhaseLoaders
    /\ nb_valid_batches_per_epoch \in NbValidBatches
    /\ batch_id = None
    /\ context = "training"
    /\ tracking_valid_loss_monitor = NewMonitor
    /\ tracking_valid_IS_monitor = NewMonitor
    /\ head \in { NewHead(cls, 3, NoDropout, DefaultSphere, NbGaussians) :
                     cls \in PhaseClasses }
    /\ call = [method |-> "__init__", tick |-> 0]
    /\ pc = "idle"
    /\ data = <<>>
    /\ step_size \in StepSizes
    /\ nb_steps_init \in PhaseNbStepsInit
    /\ tracking_mask = None
    /\ theta = None
    /\ append_last_point = None
    /\ normalize_directions = None
    /\ max_nbr_pts = None
    /\ last_pos = <<>>
    /\ seeds = <<>>
    /\ lines = <<>>
    /\ continuing_lines_rawidx = <<>>
    /\ final_lines = <<>>
    /\ stop_reason = <<>>
    /\ model_inputs = <<>>
    /\ next_dirs = <<>>
    /\ nb_steps = 0
    /\ result = NoResult

\* The loop takes the next batch and generate_from_one_batch starts the
\* propagation on it (lines 157-166, 203-213 and 237-265)
PhaseStartBatch ==
    /\ vpc = "loop"
    /\ pc \in {"idle", "updated"}
    /\ batch_id < Len(valid_dataloader)
    /\ ~BreakAtMax(batch_id)
    /\ LET batch == valid_dataloader[batch_id + 1]
       IN  /\ data' = batch
           /\ last_pos' = LastPositions(batch)
           /\ EngineStart(TruncateToInit(batch, nb_steps_init),
                          MaxNbrPts(step_size))
    /\ pc' = "propagating"
    /\ theta' = ThetaDriver
    /\ append_last_point' = AppendLastPointDriver
    /\ normalize_directions' = NormalizeDirectionsDriver
    /\ max_nbr_pts' = MaxNbrPts(step_size)
    /\ UNCHANGED <<step_size, nb_steps_init, tracking_mask, result,
                   validVars, headVars, weightVars, saveVars, moreVars>>

\* A step of the engine whose call of get_dirs_at_last_pos returns
PhaseStep ==
    /\ vpc = "loop"
    /\ pc = "propagating"
    /\ lines # <<>>
    /\ GetDirsAtLastPos(head, GetDirsInputs(lines, NLastPos(lines))).kind
           = "returned"
    /\ EngineStep

\* A step of the engine whose call of get_dirs_at_last_pos raises: the
\* error leaves the engine, generate_from_one_batch and the phase
PhaseStepRaises ==
    /\ vpc = "loop"
    /\ pc = "propagating"
    /\ lines # <<>>
    /\ LET inputs == GetDirsInputs(lines, NLastPos(lines))
           out    == GetDirsAtLastPos(head, inputs)
       IN  /\ out.kind # "returned"
           /\ model_inputs' = inputs
           /\ call' = [method |-> out.method, key |-> head.key,
                       tick |-> 1 - call.tick, outputs |-> inputs,
                       outcome |-> Raised(out.kind)]
    /\ pc' = "raised"
    /\ vpc' = "raised"
    /\ UNCHANGED <<data, step_size, nb_steps_init, tracking_mask, theta,
                   append_last_point, normalize_directions, max_nbr_pts,
                   last_pos, seeds, lines, continuing_lines_rawidx,
                   final_lines, stop_reason, next_dirs, nb_steps, result,
                   valid_dataloader, nb_valid_batches_per_epoch, batch_id,
                   context, tracking_valid_loss_monitor,
                   tracking_valid_IS_monitor, head,
                   weightVars, saveVars, moreVars>>

\* The batch is validated: both monitors are updated with weight n (lines
\* 168-171); the loss monitor receives the mean of the losses, kept here as
\* the losses it is the mean of
PhaseUpdateMonitors ==
    /\ vpc = "loop"
    /\ pc = "scored"
    /\ tracking_valid_loss_monitor' =
           MonitorUpdate(tracking_valid_loss_monitor,
                         [mean_of |-> result.loss], result.n)
    /\ tracking_valid_IS_monitor' =
           MonitorUpdate(tracking_valid_IS_monitor, result.IS_ratio, result.n)
    /\ batch_id' = batch_id + 1
    /\ pc' = "updated"
    /\ UNCHANGED <<data, step_size, nb_steps_init, tracking_mask, theta,
                   append_last_point, normalize_directions, max_nbr_pts,
                   last_pos, seeds, lines, continuing_lines_rawidx,
                   final_lines, stop_reason, model_inputs, next_dirs,
                   nb_steps, result, vpc, valid_dataloader,
                   nb_valid_batches_per_epoch, context, headVars,
                   weightVars, saveVars, moreVars>>

\* The loop ends between two batches
PhaseBreakLoop == pc \in {"idle", "updated"} /\ BreakLoop

PhaseEndOfLoader == pc \in {"idle", "updated"} /\ EndOfLoader

NextPhase ==
    \/ StartValidation
    \/ PhaseStartBatch
    \/ PhaseStep
    \/ PhaseStepRaises
    \/ EngineReturn
    \/ Score
    \/ PhaseUpdateMonitors
    \/ PhaseBreakLoop
    \/ PhaseEndOfLoader

InitPhase == PhaseIdle /\ WeightOff /\ SaveOff /\ MoreOff

SpecPhase == InitPhase /\ [][NextPhase]_vars

\* No point was appended to a line of the batch: every line the engine
\* holds or finished is its seed
NoPointAppended ==
    /\ \A i \in 1..Len(lines) : lines[i] = seeds[continuing_lines_rawidx[i]]
    /\ \A r \in 1..Len(final_lines) :
          final_lines[r] # NoLine => final_lines[r] = seeds[r]

NoUpdate(m) == m.current_batch_values = <<>>

\* C28, as stated: a phase run with a gaussian, gaussian-mixture or
\* fisher-von-mises head that ends in an error ends in NotImplementedError,
\* on the first step of the first batch, with no point appended to a line
\* and no update of the loss or IS monitor.
C28_EndsUnsupported ==
    (head.key \in NoDetKeys /\ vpc = "raised") =>
        /\ call.outcome.kind = "NotImplementedError"
        /\ batch_id = 0
        /\ nb_steps = 0
        /\ NoPointAppended
        /\ NoUpdate(tracking_valid_loss_monitor)
        /\ NoUpdate(tracking_valid_IS_monitor)

\* What holds of the error for the three families: it is raised on the
\* first step a batch takes, with no point appended in that batch
C28_RaisedOnFirstStep ==
    (head.key \in NoDetKeys /\ vpc = "raised") =>
        /\ call.outcome.kind \in {"AttributeError", "NotImplementedError"}
        /\ call.outcome.kind = "NotImplementedError"
              <=> head.key = "fisher-von-mises"
        /\ nb_steps = 0
        /\ NoPointAppended

====
